---- MODULE Spec2Model ----
(***************************************************************************)
(* Model of volumetric_mapping's OctomapWorld (octomap_world.cc): the      *)
(* saliency / inhibition-of-return state kept on the voxels of the octree  *)
(* and the occupancy evidence that is integrated into the same voxels.     *)
(*                                                                         *)
(* Numbers.  The code computes the running mean and the smoothed value in  *)
(* float and the decay multiplier in double.  The model computes them as   *)
(* exact rationals [n, d] with d > 0 (a stored value_buff is in lowest     *)
(* terms); only the conversion to unsigned char truncates, as the cast in  *)
(* the code does.  Log-odds are integers in units of the miss update.      *)
(***************************************************************************)
EXTENDS Integers, FiniteSets, Sequences, TLC

(***************************************************************************)
(* Bounds of the model.                                                    *)
(***************************************************************************)
MaxEpoch == 3      \* salconfig_.timestamp is not advanced beyond this
MaxPixels == 2     \* pixels of one image that reach updateSaliency
MaxAge == 4        \* LiveSpec: age counters of Salient voxels saturate here
MaxPoints == 3     \* RaySpec: points of one cloud

\* The voxel keys of the modelled map.  Every operation treats the leaves one
\* by one, so two are enough to see one voxel change while another is left.
Keys == {0, 1}

(***************************************************************************)
(* Occupancy parameters handed to the octree by setOctomapParameters, as   *)
(* log-odds.                                                               *)
(***************************************************************************)
ProbHitLog == 2
ProbMissLog == -1
ClampingThresMinLog == -1
ClampingThresMaxLog == 2
OccProbThresLog == 0

(***************************************************************************)
(* Inputs: pixel intensities of the saliency image and the saliency        *)
(* configuration (salconfig_), which this file only reads.                 *)
(***************************************************************************)
Intensities == {0, 100, 200, 255}
Configs ==
  { [timestamp |-> 0, alpha |-> [n |-> 1, d |-> 2], beta |-> [n |-> -1, d |-> 2],
     saliency_threshold |-> 128],
    [timestamp |-> 0, alpha |-> [n |-> 1, d |-> 1], beta |-> [n |-> -1, d |-> 1],
     saliency_threshold |-> 100],
    [timestamp |-> 0, alpha |-> [n |-> 1, d |-> 2], beta |-> [n |-> 0, d |-> 1],
     saliency_threshold |-> 128] }

(***************************************************************************)
(* Exact rational arithmetic.                                              *)
(***************************************************************************)
Abs(i) == IF i < 0 THEN -i ELSE i

RECURSIVE GCD(_, _)
GCD(a, b) == IF b = 0 THEN a ELSE GCD(b, a % b)

\* The fraction n/d in lowest terms (the form in which a value is stored).
RNorm(a) ==
  LET g == GCD(Abs(a.n), a.d)
  IN  IF a.n >= 0 THEN [n |-> a.n \div g, d |-> a.d \div g]
      ELSE [n |-> -((-a.n) \div g), d |-> a.d \div g]

RInt(i) == [n |-> i, d |-> 1]
RAdd(a, b) == [n |-> a.n * b.d + b.n * a.d, d |-> a.d * b.d]
RSub(a, b) == [n |-> a.n * b.d - b.n * a.d, d |-> a.d * b.d]
RMul(a, b) == [n |-> a.n * b.n, d |-> a.d * b.d]
RDivInt(a, k) == [n |-> a.n, d |-> a.d * k]
REq(a, b) == a.n * b.d = b.n * a.d
RGt(a, b) == a.n * b.d > b.n * a.d
RLt(a, b) == a.n * b.d < b.n * a.d

\* Conversion of a real to an integer type discards the fractional part.
Trunc(a) == IF a.n >= 0 THEN a.n \div a.d ELSE -((-a.n) \div a.d)

\* (unsigned char)x: the truncated value when it is representable; the
\* conversion is undefined otherwise and may then produce any byte.
CastUChar(a) ==
  IF Trunc(a) >= 0 /\ Trunc(a) <= 255 THEN {Trunc(a)} ELSE 0..255

(***************************************************************************)
(* SaliencyOcTreeNode::Saliency                                            *)
(***************************************************************************)
VOXEL_NORMAL == "VOXEL_NORMAL"
VOXEL_SALIENCY == "VOXEL_SALIENCY"
VOXEL_RETIRED == "VOXEL_RETIRED"

NewSaliency ==
  [type |-> VOXEL_NORMAL, value |-> 0, value_buff |-> RInt(0),
   counter |-> 0, timestamp |-> 0]

\* A key without a node in the octree.
NoNode == [present |-> FALSE, logodds |-> 0, saliency |-> NewSaliency]

VARIABLES
  tree,         \* octree_: key -> node (log-odds and saliency), or NoNode
  salconfig,    \* salconfig_: timestamp, alpha, beta, saliency_threshold
  pc,           \* "idle", or "project" inside insertSaliencyImageIntoMapImpl
  count_success, \* updateSaliency calls made so far for the current image
  reply,        \* what the last query returned to its caller, or NoReply
  free_set,     \* the KeySet free_cells of the batch being built or applied
  occupied_set, \* the KeySet occupied_cells of the same batch
  visited,      \* updateOccupancy: keys the running loop has passed
  node_updates, \* updateOccupancy: the updateNode calls made, in order
  inner_updates, \* updateOccupancy: the updateInnerOccupancy calls made
  entry,        \* updateOccupancy: the sets and the octree at entry
  params,       \* params_: sensor_max_range, max_free_space, min_height_free_space
  p_G_sensor,   \* batch building: z of the sensor origin
  p_G_point,    \* batch building: z of the point the loop is at
  points_done,  \* batch building: points the loop has passed
  rays_cast,    \* batch building: castRay calls made
  res,          \* what the last castRay returned
  changed_keys, \* the octree's change detection buffer: key -> created?
  bbox_line,    \* the locals of a running getLineStatusBoundingBox, or NoLine
  robot_size,   \* robot_size_: z extent of the robot's bounding box
  files,        \* the file system: file name -> what the file holds
  tree_resolution \* the resolution of the octree, in units

\* Batch building (castRay and the loops that call it).
rayVars == <<params, p_G_sensor, p_G_point, points_done, rays_cast, res>>

\* Change detection and the queries on the map.
queryVars == <<changed_keys, bbox_line, robot_size, files, tree_resolution>>

\* The variables of the specifications that follow one call on its own.
callVars ==
  <<reply, free_set, occupied_set, visited, node_updates, inner_updates,
    entry, rayVars, queryVars>>

vars == <<tree, salconfig, pc, count_success, callVars>>

\* No query has returned yet.
NoReply == [call |-> "none"]

\* updateOccupancy has not been entered yet.
NoEntry == [free_cells |-> {}, occupied_cells |-> {}, tree |-> <<>>]

\* No batch is being built or applied.
NoBatch ==
  /\ free_set = {}
  /\ occupied_set = {}
  /\ visited = {}
  /\ node_updates = <<>>
  /\ inner_updates = 0
  /\ entry = NoEntry

\* getLineStatusBoundingBox is not running.
NoLine == [running |-> FALSE]

\* Nothing in the change detection buffer, no bounding-box query running,
\* robot_size_ as constructed, no file written, an octree of the resolution
\* the geometry below is written for.
NoQuery ==
  /\ changed_keys = <<>>
  /\ bbox_line = NoLine
  /\ robot_size = 0
  /\ files = <<>>
  /\ tree_resolution = 2

\* No point has been handed to castRay; params_ as constructed.
NoRay ==
  /\ params = [sensor_max_range |-> -1, max_free_space |-> 0,
               min_height_free_space |-> 0]
  /\ p_G_sensor = 0
  /\ p_G_point = 0
  /\ points_done = 0
  /\ rays_cast = 0
  /\ res = 0

(***************************************************************************)
(* Octree primitives used by this file.                                    *)
(***************************************************************************)
\* Variant: the log-odds are not clamped at the upper threshold.
Clamp_NoMax(l) ==
  IF l < ClampingThresMinLog THEN ClampingThresMinLog ELSE l

Clamp(l) ==
  IF l < ClampingThresMinLog THEN ClampingThresMinLog
  ELSE IF l > ClampingThresMaxLog THEN ClampingThresMaxLog ELSE l

\* octree_->updateNode(key, occupied): creates the leaf when it is missing
\* and adds the hit or miss log-odds, clamped.
UpdateNode(node, occupied) ==
  [node EXCEPT !.present = TRUE,
               !.logodds = Clamp(node.logodds +
                                 (IF occupied THEN ProbHitLog ELSE ProbMissLog))]

\* octree_->isNodeOccupied(node)
IsNodeOccupied(node) == node.logodds >= OccProbThresLog

(***************************************************************************)
(* OctomapWorld::updateSaliency(n, sal_val): the set of records the call   *)
(* can leave in the node (one record unless the cast is undefined).        *)
(***************************************************************************)
\* Variant: the reset is done on every call, whatever the timestamp.
SaliencyReset_EveryCall(s, cfg) ==
  [s EXCEPT !.counter = 0, !.timestamp = cfg.timestamp,
            !.value_buff = RInt(s.value)]

SaliencyReset(s, cfg) ==
  IF s.timestamp # cfg.timestamp
  THEN [s EXCEPT !.counter = 0, !.timestamp = cfg.timestamp,
                 !.value_buff = RInt(s.value)]
  ELSE s

\* Variant: the previous mean is weighted by the incremented counter.
RunningMean_WrongWeight(I_bar_1, counter, sal_val) ==
  RDivInt(RAdd(RMul(I_bar_1, RInt(counter)), RInt(sal_val)), counter)

\* I_bar, from the previous mean and the incremented counter.
RunningMean(I_bar_1, counter, sal_val) ==
  RDivInt(RAdd(RMul(I_bar_1, RInt(counter - 1)), RInt(sal_val)), counter)

\* Variant: the value is pulled towards the mean itself.
Smoothed_TowardsMean(value, alpha, I_bar, I_bar_1) ==
  RAdd(RInt(value), RMul(alpha, RSub(I_bar, RInt(value))))

Smoothed(value, alpha, I_bar, I_bar_1) ==
  RAdd(RInt(value), RMul(alpha, RSub(I_bar, I_bar_1)))

\* Variant: a value equal to the threshold counts as salient.
Classify_AtOrAbove(value, sal_thres) ==
  IF value >= sal_thres THEN VOXEL_SALIENCY ELSE VOXEL_NORMAL

Classify(value, sal_thres) ==
  IF value > sal_thres THEN VOXEL_SALIENCY ELSE VOXEL_NORMAL

\* The body run for a VOXEL_NORMAL node.
UpdateSaliencyNormal(s, sal_val, cfg) ==
  LET r == SaliencyReset(s, cfg)
      I_bar_1 == r.value_buff
      counter == r.counter + 1
      I_bar == RunningMean(I_bar_1, counter, sal_val)
      sal == Smoothed(r.value, cfg.alpha, I_bar, I_bar_1)
  IN  { [type |-> Classify(v, cfg.saliency_threshold),
         value |-> v,
         value_buff |-> RNorm(I_bar),
         counter |-> IF Classify(v, cfg.saliency_threshold) = VOXEL_SALIENCY
                     THEN 0 ELSE counter,
         timestamp |-> r.timestamp] : v \in CastUChar(sal) }

\* Variant: the update is applied whatever the node's type.
UpdateSaliency_AnyType(s, sal_val, cfg) == UpdateSaliencyNormal(s, sal_val, cfg)

UpdateSaliency(s, sal_val, cfg) ==
  IF s.type = VOXEL_NORMAL THEN UpdateSaliencyNormal(s, sal_val, cfg) ELSE {s}

(***************************************************************************)
(* OctomapWorld::updateIOR(): one pass over all leaves.                    *)
(***************************************************************************)
\* 1 + k*beta + k*k*beta*beta/2
ExpBeta(k, beta) ==
  RAdd(RAdd(RInt(1), RMul(RInt(k), beta)),
       RDivInt(RMul(RInt(k * k), RMul(beta, beta)), 2))

\* Variant: the scaled value is written back to the node.
IORLeaf_StoresValue(node, cfg) ==
  LET s == node.saliency
  IN  IF IsNodeOccupied(node)
      THEN IF s.type = VOXEL_SALIENCY /\ s.timestamp # cfg.timestamp
           THEN LET k == s.counter + 1
                    sal_tmp == RMul(RInt(s.value), ExpBeta(k, cfg.beta))
                IN  [node EXCEPT !.saliency =
                       [s EXCEPT !.counter = k,
                                 !.value = Trunc(sal_tmp),
                                 !.type = IF RGt(sal_tmp, RInt(cfg.saliency_threshold))
                                          THEN VOXEL_SALIENCY ELSE VOXEL_RETIRED,
                                 !.timestamp = cfg.timestamp]]
           ELSE node
      ELSE [node EXCEPT !.saliency.value = 0]

\* Variant: a voxel is retired only when the scaled value is strictly below
\* the threshold.
IORLeaf_StrictlyBelow(node, cfg) ==
  LET s == node.saliency
  IN  IF IsNodeOccupied(node)
      THEN IF s.type = VOXEL_SALIENCY /\ s.timestamp # cfg.timestamp
           THEN LET k == s.counter + 1
                    sal_tmp == RMul(RInt(s.value), ExpBeta(k, cfg.beta))
                IN  [node EXCEPT !.saliency =
                       [s EXCEPT !.counter = k,
                                 !.type = IF RLt(sal_tmp, RInt(cfg.saliency_threshold))
                                          THEN VOXEL_RETIRED ELSE VOXEL_SALIENCY,
                                 !.timestamp = cfg.timestamp]]
           ELSE node
      ELSE [node EXCEPT !.saliency.value = 0]

\* Variant: Retired voxels are reclassified like Salient ones.
IORLeaf_RetiredToo(node, cfg) ==
  LET s == node.saliency
  IN  IF IsNodeOccupied(node)
      THEN IF s.type # VOXEL_NORMAL /\ s.timestamp # cfg.timestamp
           THEN LET k == s.counter + 1
                    sal_tmp == RMul(RInt(s.value), ExpBeta(k, cfg.beta))
                IN  [node EXCEPT !.saliency =
                       [s EXCEPT !.counter = k,
                                 !.type = IF RGt(sal_tmp, RInt(cfg.saliency_threshold))
                                          THEN VOXEL_SALIENCY ELSE VOXEL_RETIRED,
                                 !.timestamp = cfg.timestamp]]
           ELSE node
      ELSE [node EXCEPT !.saliency.value = 0]

\* Variant: no time check, voxels updated in this epoch are decayed too.
IORLeaf_NoTimeCheck(node, cfg) ==
  LET s == node.saliency
  IN  IF IsNodeOccupied(node)
      THEN IF s.type = VOXEL_SALIENCY
           THEN LET k == s.counter + 1
                    sal_tmp == RMul(RInt(s.value), ExpBeta(k, cfg.beta))
                IN  [node EXCEPT !.saliency =
                       [s EXCEPT !.counter = k,
                                 !.type = IF RGt(sal_tmp, RInt(cfg.saliency_threshold))
                                          THEN VOXEL_SALIENCY ELSE VOXEL_RETIRED,
                                 !.timestamp = cfg.timestamp]]
           ELSE node
      ELSE [node EXCEPT !.saliency.value = 0]

\* Variant: a free voxel keeps its value.
IORLeaf_KeepsFree(node, cfg) ==
  LET s == node.saliency
  IN  IF IsNodeOccupied(node)
      THEN IF s.type = VOXEL_SALIENCY /\ s.timestamp # cfg.timestamp
           THEN LET k == s.counter + 1
                    sal_tmp == RMul(RInt(s.value), ExpBeta(k, cfg.beta))
                IN  [node EXCEPT !.saliency =
                       [s EXCEPT !.counter = k,
                                 !.type = IF RGt(sal_tmp, RInt(cfg.saliency_threshold))
                                          THEN VOXEL_SALIENCY ELSE VOXEL_RETIRED,
                                 !.timestamp = cfg.timestamp]]
           ELSE node
      ELSE node

IORLeaf(node, cfg) ==
  LET s == node.saliency
  IN  IF IsNodeOccupied(node)
      THEN IF s.type = VOXEL_SALIENCY /\ s.timestamp # cfg.timestamp
           THEN LET k == s.counter + 1
                    sal_tmp == RMul(RInt(s.value), ExpBeta(k, cfg.beta))
                IN  [node EXCEPT !.saliency =
                       [s EXCEPT !.counter = k,
                                 !.type = IF RGt(sal_tmp, RInt(cfg.saliency_threshold))
                                          THEN VOXEL_SALIENCY ELSE VOXEL_RETIRED,
                                 !.timestamp = cfg.timestamp]]
           ELSE node
      ELSE [node EXCEPT !.saliency.value = 0]

UpdateIOR(t, cfg) ==
  [k \in Keys |-> IF t[k].present THEN IORLeaf(t[k], cfg) ELSE t[k]]

(***************************************************************************)
(* OctomapWorld::updateOccupancy(free_cells, occupied_cells)               *)
(***************************************************************************)
\* The free set as the first loop leaves it.
FreeAfterOccupied(free_cells, occupied_cells) == free_cells \ occupied_cells

UpdateOccupancyTree(t, free_cells, occupied_cells) ==
  [k \in Keys |->
     IF k \in occupied_cells THEN UpdateNode(t[k], TRUE)
     ELSE IF k \in FreeAfterOccupied(free_cells, occupied_cells)
          THEN UpdateNode(t[k], FALSE)
          ELSE t[k]]

(***************************************************************************)
(* Initial state: an empty octree and a saliency configuration.            *)
(***************************************************************************)
Init ==
  /\ tree = [k \in Keys |-> NoNode]
  /\ salconfig \in Configs
  /\ pc = "idle"
  /\ count_success = 0
  /\ reply = NoReply
  /\ NoBatch
  /\ NoRay
  /\ NoQuery

(***************************************************************************)
(* Actions                                                                 *)
(***************************************************************************)
\* A point-cloud or disparity batch reaching updateOccupancy.
UpdateOccupancy ==
  /\ pc = "idle"
  /\ \E free_cells \in SUBSET Keys, occupied_cells \in SUBSET Keys :
       /\ free_cells \cup occupied_cells # {}
       /\ tree' = UpdateOccupancyTree(tree, free_cells, occupied_cells)
  /\ UNCHANGED <<salconfig, pc, count_success, callVars>>

\* insertSaliencyImageIntoMapImpl, entry: a new epoch.
InsertSaliencyImageBegin ==
  /\ pc = "idle"
  /\ salconfig.timestamp < MaxEpoch
  /\ salconfig' = [salconfig EXCEPT !.timestamp = @ + 1]
  /\ pc' = "project"
  /\ count_success' = 0
  /\ UNCHANGED <<tree, callVars>>

\* One pixel at or above the threshold whose ray ends in the occupied voxel
\* key: updateSaliency on that node.  (A pixel below the threshold, or one
\* whose ray meets no occupied voxel, changes nothing in the map.)
ProjectPixelHit ==
  /\ pc = "project"
  /\ count_success < MaxPixels
  /\ \E sal_val \in Intensities, key \in Keys :
       /\ ~(sal_val < salconfig.saliency_threshold)
       /\ tree[key].present
       /\ IsNodeOccupied(tree[key])
       /\ \E s \in UpdateSaliency(tree[key].saliency, sal_val, salconfig) :
            tree' = [tree EXCEPT ![key].saliency = s]
  /\ count_success' = count_success + 1
  /\ UNCHANGED <<salconfig, pc, callVars>>

\* Variant: the decay sweep is run whatever the sign of beta.
InsertSaliencyImageEnd_AlwaysSweeps ==
  /\ pc = "project"
  /\ tree' = UpdateIOR(tree, salconfig)
  /\ pc' = "idle"
  /\ UNCHANGED <<salconfig, count_success, callVars>>

\* insertSaliencyImageIntoMapImpl, after the pixel loop: the decay sweep
\* when beta < 0.
InsertSaliencyImageEnd ==
  /\ pc = "project"
  /\ tree' = IF RLt(salconfig.beta, RInt(0)) THEN UpdateIOR(tree, salconfig)
             ELSE tree
  /\ pc' = "idle"
  /\ UNCHANGED <<salconfig, count_success, callVars>>

Next ==
  \/ UpdateOccupancy
  \/ InsertSaliencyImageBegin
  \/ ProjectPixelHit
  \/ InsertSaliencyImageEnd

Spec == Init /\ [][Next]_vars

(***************************************************************************)
(* LiveSpec: the same operations with saliency images arriving for ever.   *)
(* To keep the state space finite without stopping the epochs,             *)
(*  - once salconfig_.timestamp has reached MaxEpoch, a new epoch keeps    *)
(*    the number and moves every stored timestamp one epoch back (the code *)
(*    only ever tests a stored timestamp for equality with the current     *)
(*    epoch, so every stale timestamp behaves alike);                      *)
(*  - the age counter of a Salient voxel saturates at MaxAge.  For every   *)
(*    beta of Configs, ExpBeta(k, beta) is non-decreasing from k = 2 on,   *)
(*    so a voxel the sweep keeps Salient at the saturated age is kept      *)
(*    Salient by the code at every later age too.                          *)
(* Fairness: images keep arriving and a started handler runs to its end.   *)
(***************************************************************************)
ShiftStamps(t) ==
  [k \in Keys |->
     [t[k] EXCEPT !.saliency.timestamp = IF @ > 0 THEN @ - 1 ELSE 0]]

CapAges(t) ==
  [k \in Keys |->
     IF t[k].saliency.type = VOXEL_SALIENCY /\ t[k].saliency.counter > MaxAge
     THEN [t[k] EXCEPT !.saliency.counter = MaxAge]
     ELSE t[k]]

InsertSaliencyImageBeginLive ==
  /\ pc = "idle"
  /\ IF salconfig.timestamp < MaxEpoch
     THEN /\ salconfig' = [salconfig EXCEPT !.timestamp = @ + 1]
          /\ UNCHANGED tree
     ELSE /\ tree' = ShiftStamps(tree)
          /\ UNCHANGED salconfig
  /\ pc' = "project"
  /\ count_success' = 0
  /\ UNCHANGED callVars

InsertSaliencyImageEndLive ==
  /\ pc = "project"
  /\ tree' = CapAges(IF RLt(salconfig.beta, RInt(0))
                     THEN UpdateIOR(tree, salconfig) ELSE tree)
  /\ pc' = "idle"
  /\ UNCHANGED <<salconfig, count_success, callVars>>

NextLive ==
  \/ UpdateOccupancy
  \/ InsertSaliencyImageBeginLive
  \/ ProjectPixelHit
  \/ InsertSaliencyImageEndLive

LiveSpec ==
  /\ Init
  /\ [][NextLive]_vars
  /\ WF_vars(InsertSaliencyImageBeginLive)
  /\ WF_vars(InsertSaliencyImageEndLive)

(***************************************************************************)
(* Which step of the saliency handler a transition is.                     *)
(***************************************************************************)
ObserveStep == pc = "project" /\ pc' = "project"
SweepStep == pc = "project" /\ pc' = "idle"

Type(k) == tree[k].saliency.type

(***************************************************************************)
(* C1: a voxel's saliency state only moves Normal -> Salient, by an        *)
(* observation, or Salient -> Retired, by the decay sweep; a Retired voxel *)
(* stays Retired and a Salient voxel never returns to Normal.              *)
(***************************************************************************)
C1_TypeTransitions ==
  [][\A k \in Keys :
       (tree[k].present /\ tree'[k].present) =>
         \/ tree'[k].saliency.type = Type(k)
         \/ /\ Type(k) = VOXEL_NORMAL
            /\ tree'[k].saliency.type = VOXEL_SALIENCY
            /\ ObserveStep
         \/ /\ Type(k) = VOXEL_SALIENCY
            /\ tree'[k].saliency.type = VOXEL_RETIRED
            /\ SweepStep]_vars

\* A voxel has gone through both transitions and a later image has begun.
C1_Witness ==
  \E k \in Keys : Type(k) = VOXEL_RETIRED /\ pc = "project"

(***************************************************************************)
(* C2: with decay enabled (beta < 0) and a fixed threshold, every voxel    *)
(* that is Salient and stays occupied eventually becomes Retired.          *)
(***************************************************************************)
DecayEnabled == RLt(salconfig.beta, RInt(0))

SalientAndDecaying(k) ==
  /\ DecayEnabled
  /\ tree[k].present
  /\ IsNodeOccupied(tree[k])
  /\ Type(k) = VOXEL_SALIENCY

RetiredOrFreed(k) == Type(k) = VOXEL_RETIRED \/ ~IsNodeOccupied(tree[k])

C2_SalientEventuallyRetired ==
  /\ SalientAndDecaying(0) ~> RetiredOrFreed(0)
  /\ SalientAndDecaying(1) ~> RetiredOrFreed(1)

(***************************************************************************)
(* The decay sweep and the voxels it processes: occupied, Salient and not  *)
(* updated in the current epoch.                                           *)
(***************************************************************************)
DecaySweep == SweepStep /\ DecayEnabled

Sal(k) == tree[k].saliency

Decays(k) ==
  /\ tree[k].present
  /\ IsNodeOccupied(tree[k])
  /\ Type(k) = VOXEL_SALIENCY
  /\ Sal(k).timestamp # salconfig.timestamp

\* value * m with m = 1 + k*beta + (k*beta)^2/2 for the incremented age k.
Scaled(k) ==
  RMul(RInt(Sal(k).value), ExpBeta(Sal(k).counter + 1, salconfig.beta))

(***************************************************************************)
(* C3, as claimed: the decay sweep replaces the stored value of a voxel it *)
(* processes by value * m (converted to the 8-bit field).                  *)
(***************************************************************************)
C3_ValueScaled ==
  [][DecaySweep =>
       \A k \in Keys :
         Decays(k) => tree'[k].saliency.value = Trunc(Scaled(k))]_vars

(***************************************************************************)
(* C3, amended: the decay sweep leaves the stored value (and value_buff)   *)
(* of a voxel it processes unchanged; value * m only decides the           *)
(* reclassification, so the gain read from a voxel that stays Salient is   *)
(* the same before and after the sweep.                                    *)
(***************************************************************************)
C3_ValueKept ==
  [][DecaySweep =>
       \A k \in Keys :
         Decays(k) =>
           /\ tree'[k].saliency.value = Sal(k).value
           /\ tree'[k].saliency.value_buff = Sal(k).value_buff]_vars

\* A sweep has processed a voxel whose scaled value differs from its value:
\* it is still Salient at age 1 or more and keeps a value above the threshold.
C3_Witness ==
  \E k \in Keys :
    /\ pc = "idle"
    /\ Type(k) = VOXEL_SALIENCY
    /\ Sal(k).counter >= 1
    /\ Sal(k).timestamp = salconfig.timestamp
    /\ Sal(k).value > salconfig.saliency_threshold
    /\ ~REq(ExpBeta(Sal(k).counter, salconfig.beta), RInt(1))

(***************************************************************************)
(* C4: the decay sweep increments the age counter of a voxel it processes  *)
(* by exactly one, retires it iff value * m <= threshold (m taken at the   *)
(* incremented age) and keeps it Salient otherwise, and stamps it with the *)
(* current epoch.                                                          *)
(***************************************************************************)
C4_SweepReclassifies ==
  [][DecaySweep =>
       \A k \in Keys :
         Decays(k) =>
           /\ tree'[k].saliency.counter = Sal(k).counter + 1
           /\ tree'[k].saliency.type =
                IF RGt(Scaled(k), RInt(salconfig.saliency_threshold))
                THEN VOXEL_SALIENCY ELSE VOXEL_RETIRED
           /\ tree'[k].saliency.timestamp = salconfig.timestamp]_vars

\* A sweep has just retired a voxel whose scaled value was exactly the
\* threshold.
C4_Witness ==
  \E k \in Keys :
    /\ pc = "idle"
    /\ Type(k) = VOXEL_RETIRED
    /\ Sal(k).timestamp = salconfig.timestamp
    /\ REq(RMul(RInt(Sal(k).value), ExpBeta(Sal(k).counter, salconfig.beta)),
           RInt(salconfig.saliency_threshold))

(***************************************************************************)
(* C5: a decay sweep changes no saliency field of an occupied voxel that   *)
(* was updated in the current epoch or is not Salient.                     *)
(***************************************************************************)
C5_SweepSkips ==
  [][DecaySweep =>
       \A k \in Keys :
         (/\ tree[k].present
          /\ IsNodeOccupied(tree[k])
          /\ (Sal(k).timestamp = salconfig.timestamp \/ Type(k) # VOXEL_SALIENCY))
         => tree'[k].saliency = Sal(k)]_vars

\* A sweep has passed over a voxel that an observation of the same epoch had
\* just made Salient: its age is still 0.
C5_Witness ==
  \E k \in Keys :
    /\ pc = "idle"
    /\ DecayEnabled
    /\ IsNodeOccupied(tree[k])
    /\ Type(k) = VOXEL_SALIENCY
    /\ Sal(k).timestamp = salconfig.timestamp
    /\ Sal(k).counter = 0

(***************************************************************************)
(* C6: an observation of a voxel that is Salient or Retired changes no     *)
(* saliency field of it (nor of any other voxel in that state).            *)
(***************************************************************************)
C6_ObserveIgnored ==
  [][ObserveStep =>
       \A k \in Keys :
         Type(k) # VOXEL_NORMAL => tree'[k].saliency = Sal(k)]_vars

\* updateSaliency has been called for the current image and every occupied
\* voxel, the only possible targets, is Retired.
C6_Witness ==
  /\ pc = "project"
  /\ count_success >= 1
  /\ \E k \in Keys : tree[k].present /\ IsNodeOccupied(tree[k])
  /\ \A k \in Keys :
       (tree[k].present /\ IsNodeOccupied(tree[k])) => Type(k) = VOXEL_RETIRED

(***************************************************************************)
(* The quantities named by the claims about one observation, written from  *)
(* the record s held before the call.                                      *)
(***************************************************************************)
FirstOfEpoch(s) == s.timestamp # salconfig.timestamp

\* The baseline and the hit counter in effect once the epoch reset, if any,
\* is done.
BaselineOf(s) == IF FirstOfEpoch(s) THEN RInt(s.value) ELSE s.value_buff
HitsOf(s) == IF FirstOfEpoch(s) THEN 0 ELSE s.counter

MeanFrom(buffer, hits, intensity) ==
  RDivInt(RAdd(RMul(buffer, RInt(hits)), RInt(intensity)), hits + 1)

SmoothFrom(value, buffer, mean) ==
  RAdd(RInt(value), RMul(salconfig.alpha, RSub(mean, buffer)))

Observe(s, intensity) == UpdateSaliency(s, intensity, salconfig)

\* The pixel loop is running and k is one of the voxels a ray can end in.
Observable(k) ==
  pc = "project" /\ tree[k].present /\ IsNodeOccupied(tree[k])

(***************************************************************************)
(* C7, as claimed: an observation of a Normal voxel computes               *)
(* mean = (value_buffer*hit_counter + intensity)/(hit_counter + 1) from    *)
(* the value_buffer and hit_counter held before the call, increments       *)
(* hit_counter by one, sets value to value + alpha*(mean - value_buffer)   *)
(* (read here as stored in the 8-bit field) and value_buffer to mean.      *)
(***************************************************************************)
C7_ObserveFromHeldBuffer ==
  \A k \in Keys, intensity \in Intensities :
    (Observable(k) /\ Type(k) = VOXEL_NORMAL) =>
      \A r \in Observe(Sal(k), intensity) :
        LET mean == MeanFrom(Sal(k).value_buff, Sal(k).counter, intensity)
        IN  /\ REq(r.value_buff, mean)
            /\ r.type = VOXEL_NORMAL => r.counter = Sal(k).counter + 1
            /\ r.value =
                 Trunc(SmoothFrom(Sal(k).value, Sal(k).value_buff, mean))

(***************************************************************************)
(* C7, amended: the mean and the smoothing use the value_buffer and the    *)
(* hit_counter in effect after the epoch reset (value and 0 on the first   *)
(* observation of an epoch); the voxel is stamped with the epoch,          *)
(* value_buffer becomes the mean, value becomes                            *)
(* value + alpha*(mean - value_buffer) with its fraction discarded (when   *)
(* that is within 0..255), and hit_counter is the incremented count as     *)
(* long as the voxel stays Normal.                                         *)
(***************************************************************************)
C7_ObserveAfterReset ==
  \A k \in Keys, intensity \in Intensities :
    (Observable(k) /\ Type(k) = VOXEL_NORMAL) =>
      \A r \in Observe(Sal(k), intensity) :
        LET mean == MeanFrom(BaselineOf(Sal(k)), HitsOf(Sal(k)), intensity)
            sal == SmoothFrom(Sal(k).value, BaselineOf(Sal(k)), mean)
        IN  /\ REq(r.value_buff, mean)
            /\ r.timestamp = salconfig.timestamp
            /\ r.type = VOXEL_NORMAL => r.counter = HitsOf(Sal(k)) + 1
            /\ (Trunc(sal) >= 0 /\ Trunc(sal) <= 255) => r.value = Trunc(sal)

\* A Normal voxel observed twice in the current epoch, with a mean
\* that is not an integer, after an earlier epoch had left it a value.
C7_Witness ==
  \E k \in Keys :
    /\ pc = "project"
    /\ IsNodeOccupied(tree[k])
    /\ Type(k) = VOXEL_NORMAL
    /\ Sal(k).timestamp = salconfig.timestamp
    /\ salconfig.timestamp >= 2
    /\ Sal(k).counter = 2
    /\ Sal(k).value_buff.d > 1
    /\ Sal(k).value > 0

(***************************************************************************)
(* C8, as claimed: two observations of the same Normal voxel within one    *)
(* epoch use the same value_buffer baseline.                               *)
(***************************************************************************)
C8_SameBaseline ==
  \A k \in Keys, first \in Intensities :
    (Observable(k) /\ Type(k) = VOXEL_NORMAL /\ FirstOfEpoch(Sal(k))) =>
      \A r1 \in Observe(Sal(k), first) :
        r1.type = VOXEL_NORMAL => REq(BaselineOf(r1), BaselineOf(Sal(k)))

(***************************************************************************)
(* C8, amended: of two observations of the same Normal voxel within one    *)
(* epoch only the first performs the epoch reset (hit_counter = 0,         *)
(* last_epoch = epoch, value_buffer = value).  The second starts from the  *)
(* value_buffer the first one stored, the mean of the epoch so far, not    *)
(* from the voxel's value: it leaves value_buffer at the mean of the two   *)
(* intensities, hit_counter at 2 and value at                              *)
(* value + alpha*(mean of both - first intensity), fraction discarded.     *)
(***************************************************************************)
C8_ResetOnce ==
  \A k \in Keys, first \in Intensities, second \in Intensities :
    (Observable(k) /\ Type(k) = VOXEL_NORMAL /\ FirstOfEpoch(Sal(k))) =>
      \A r1 \in Observe(Sal(k), first) :
        r1.type = VOXEL_NORMAL =>
          /\ r1.timestamp = salconfig.timestamp
          /\ r1.counter = 1
          /\ REq(r1.value_buff, RInt(first))
          /\ \A r2 \in Observe(r1, second) :
               LET both == RDivInt(RInt(first + second), 2)
                   sal == SmoothFrom(r1.value, RInt(first), both)
               IN  /\ REq(r2.value_buff, both)
                   /\ r2.timestamp = salconfig.timestamp
                   /\ r2.type = VOXEL_NORMAL => r2.counter = 2
                   /\ (Trunc(sal) >= 0 /\ Trunc(sal) <= 255)
                        => r2.value = Trunc(sal)

\* A Normal voxel after two observations of one epoch whose second intensity
\* differed from the first (the stored mean is not an integer), with a value
\* carried over from an earlier epoch.
C8_Witness ==
  \E k \in Keys :
    /\ Observable(k)
    /\ Type(k) = VOXEL_NORMAL
    /\ Sal(k).timestamp = salconfig.timestamp
    /\ Sal(k).counter = 2
    /\ count_success = 2
    /\ Sal(k).value_buff.d = 2

(***************************************************************************)
(* C9: for a voxel that stays Normal, after the first observation of an    *)
(* epoch with intensity I, further observations in the same epoch with the *)
(* same intensity I leave its value unchanged.                             *)
(***************************************************************************)
C9_SameIntensityKeepsValue ==
  \A k \in Keys, intensity \in Intensities :
    (Observable(k) /\ Type(k) = VOXEL_NORMAL /\ FirstOfEpoch(Sal(k))) =>
      \A r1 \in Observe(Sal(k), intensity) :
        r1.type = VOXEL_NORMAL =>
          \A r2 \in Observe(r1, intensity) :
            /\ r2.value = r1.value
            /\ r2.type = VOXEL_NORMAL
            /\ \A r3 \in Observe(r2, intensity) :
                 r3.value = r1.value /\ r3.type = VOXEL_NORMAL

\* The example of the specification: threshold 128, alpha 0.5, a voxel of
\* value 0 observed twice with intensity 200 in one epoch has value 100.
C9_Witness ==
  \E k \in Keys :
    /\ Observable(k)
    /\ salconfig.saliency_threshold = 128
    /\ salconfig.alpha = [n |-> 1, d |-> 2]
    /\ Type(k) = VOXEL_NORMAL
    /\ Sal(k).timestamp = salconfig.timestamp
    /\ Sal(k).counter = 2
    /\ Sal(k).value_buff = RInt(200)
    /\ Sal(k).value = 100

(***************************************************************************)
(* C10: after an observation of a Normal voxel the state is Salient iff    *)
(* the new value is strictly greater than the threshold; a voxel that      *)
(* becomes Salient has its hit_counter reset to 0, one that does not stays *)
(* Normal and keeps the incremented count.                                 *)
(***************************************************************************)
C10_Reclassify ==
  \A k \in Keys, intensity \in Intensities :
    (Observable(k) /\ Type(k) = VOXEL_NORMAL) =>
      \A r \in Observe(Sal(k), intensity) :
        /\ r.type = VOXEL_SALIENCY <=> r.value > salconfig.saliency_threshold
        /\ r.type = VOXEL_SALIENCY => r.counter = 0
        /\ r.type # VOXEL_SALIENCY =>
             r.type = VOXEL_NORMAL /\ r.counter = HitsOf(Sal(k)) + 1

\* An observation has left a voxel Normal with a value equal to the
\* threshold, and another has made a voxel Salient in the same image.
C10_Witness ==
  /\ \E k \in Keys :
       /\ Observable(k)
       /\ Type(k) = VOXEL_NORMAL
       /\ Sal(k).timestamp = salconfig.timestamp
       /\ Sal(k).counter >= 1
       /\ Sal(k).value = salconfig.saliency_threshold
  /\ \E k \in Keys :
       /\ Observable(k)
       /\ Type(k) = VOXEL_SALIENCY
       /\ Sal(k).timestamp = salconfig.timestamp
       /\ Sal(k).counter = 0

(***************************************************************************)
(* OctomapWorld::getCuriousGain(point, gain): the status returned and the  *)
(* number left in *gain.                                                   *)
(***************************************************************************)
\* Variant: the value of an occupied voxel is reported whatever its type.
GetCuriousGain_AnyType(t, point) ==
  IF ~t[point].present THEN [status |-> "kUnknown", gain |-> 0]
  ELSE IF IsNodeOccupied(t[point])
       THEN [status |-> "kOccupied", gain |-> t[point].saliency.value]
       ELSE [status |-> "kFree", gain |-> 0]

GetCuriousGain(t, point) ==
  IF ~t[point].present THEN [status |-> "kUnknown", gain |-> 0]
  ELSE IF IsNodeOccupied(t[point])
       THEN [status |-> "kOccupied",
             gain |-> IF t[point].saliency.type = VOXEL_SALIENCY
                      THEN t[point].saliency.value ELSE 0]
       ELSE [status |-> "kFree", gain |-> 0]

(***************************************************************************)
(* QuerySpec: queries on a map that is not being written.  The map is any  *)
(* map the operations above can leave under the configuration with         *)
(* threshold 100: a Normal voxel holds a value that is not above the       *)
(* threshold, a Salient or Retired voxel the value that made it Salient,   *)
(* or 0 once a sweep has found it free; the log-odds are anywhere in the   *)
(* clamping range.                                                         *)
(***************************************************************************)
QueryConfig == CHOOSE c \in Configs : c.saliency_threshold = 100

QueryNodes ==
  {NoNode} \cup
  { [present |-> TRUE, logodds |-> l,
     saliency |-> [type |-> ty, value |-> v, value_buff |-> RInt(v),
                   counter |-> 0, timestamp |-> 0]] :
      l \in ClampingThresMinLog..ClampingThresMaxLog,
      ty \in {VOXEL_NORMAL, VOXEL_SALIENCY, VOXEL_RETIRED},
      v \in {0, 200} } \cup
  { [present |-> TRUE, logodds |-> l,
     saliency |-> [type |-> VOXEL_NORMAL, value |-> 100, value_buff |-> RInt(100),
                   counter |-> 0, timestamp |-> 0]] :
      l \in ClampingThresMinLog..ClampingThresMaxLog }

InitQuery ==
  /\ tree \in [Keys -> {n \in QueryNodes :
                          n.saliency.type = VOXEL_NORMAL =>
                            n.saliency.value <= QueryConfig.saliency_threshold}]
  /\ salconfig = QueryConfig
  /\ pc = "idle"
  /\ count_success = 0
  /\ reply = NoReply
  /\ NoBatch
  /\ NoRay
  /\ NoQuery

QueryCuriousGain ==
  /\ \E point \in Keys :
       reply' = [call |-> "getCuriousGain", point |-> point,
                 status |-> GetCuriousGain(tree, point).status,
                 gain |-> GetCuriousGain(tree, point).gain]
  /\ UNCHANGED <<tree, salconfig, pc, count_success, free_set,
                 occupied_set, visited, node_updates, inner_updates, entry,
                 rayVars, queryVars>>

NextQuery ==
  \/ QueryCuriousGain

QuerySpec == InitQuery /\ [][NextQuery]_vars

(***************************************************************************)
(* C11: getCuriousGain reports the stored value of a voxel that is         *)
(* occupied and Salient, and 0 in every other case (occupied Normal or     *)
(* Retired, free, no node).                                                *)
(***************************************************************************)
C11_GainReadout ==
  reply.call = "getCuriousGain" =>
    LET node == tree[reply.point]
    IN  reply.gain =
          IF /\ node.present
             /\ node.logodds >= OccProbThresLog
             /\ node.saliency.type = VOXEL_SALIENCY
          THEN node.saliency.value
          ELSE 0

\* The gain of an occupied Salient voxel was read and is its value, 200.
C11_Witness ==
  /\ reply.call = "getCuriousGain"
  /\ tree[reply.point].present
  /\ IsNodeOccupied(tree[reply.point])
  /\ Type(reply.point) = VOXEL_SALIENCY
  /\ reply.gain = 200

(***************************************************************************)
(* C12: after a decay sweep every free (not occupied) leaf of the octree   *)
(* has saliency value 0, whatever its value and type were before.          *)
(***************************************************************************)
C12_FreeValueReset ==
  [][DecaySweep =>
       \A k \in Keys :
         (tree'[k].present /\ ~IsNodeOccupied(tree'[k])) =>
           tree'[k].saliency.value = 0]_vars

\* A voxel that became Salient (so its value was above the threshold) and
\* was then freed has value 0 after a sweep.
C12_Witness ==
  /\ pc = "idle"
  /\ DecayEnabled
  /\ \E k \in Keys :
       /\ tree[k].present
       /\ ~IsNodeOccupied(tree[k])
       /\ Type(k) = VOXEL_SALIENCY
       /\ Sal(k).value = 0

(***************************************************************************)
(* C13: in every call of insertSaliencyImageIntoMapImpl the epoch is       *)
(* incremented by exactly one before any voxel is observed, every          *)
(* observation of the call uses that epoch, and the decay sweep runs       *)
(* exactly once, after the observations, if and only if beta < 0; with     *)
(* beta >= 0 no voxel is ever moved to Retired.                            *)
(***************************************************************************)
HandlerEntry == pc = "idle" /\ pc' = "project"
OutsideHandler == pc = "idle" /\ pc' = "idle"

C13_HandlerOrder ==
  [][/\ HandlerEntry =>
          /\ salconfig'.timestamp = salconfig.timestamp + 1
          /\ tree' = tree
     /\ ObserveStep =>
          /\ salconfig' = salconfig
          /\ \A k \in Keys :
               /\ Type(k) = VOXEL_SALIENCY => tree'[k] = tree[k]
               /\ tree'[k] # tree[k] =>
                    tree'[k].saliency.timestamp = salconfig.timestamp
     /\ SweepStep =>
          /\ salconfig' = salconfig
          /\ IF DecayEnabled
             THEN \A k \in Keys :
                    Decays(k) =>
                      /\ tree'[k].saliency.counter = Sal(k).counter + 1
                      /\ tree'[k].saliency.timestamp = salconfig.timestamp
             ELSE tree' = tree
     /\ OutsideHandler =>
          /\ salconfig' = salconfig
          /\ \A k \in Keys : tree'[k].saliency = Sal(k)
     /\ ~DecayEnabled =>
          \A k \in Keys :
            tree'[k].saliency.type = VOXEL_RETIRED => Type(k) = VOXEL_RETIRED
    ]_vars

\* A call with beta < 0 has ended in epoch 2: one voxel was observed in that
\* epoch and another, Salient since an earlier epoch, was aged once by the
\* sweep.
C13_Witness ==
  /\ pc = "idle"
  /\ DecayEnabled
  /\ salconfig.timestamp = 2
  /\ \E a \in Keys, b \in Keys :
       /\ a # b
       /\ Type(a) = VOXEL_SALIENCY
       /\ Sal(a).counter = 1
       /\ Sal(a).timestamp = 2
       /\ Type(b) = VOXEL_NORMAL
       /\ Sal(b).counter >= 1
       /\ Sal(b).timestamp = 2

(***************************************************************************)
(* OccSpec: OctomapWorld::updateOccupancy(free_cells, occupied_cells)      *)
(* statement by statement, called again and again on the same octree.      *)
(* pc is "mark_occupied" in the first loop and "mark_free" in the second.  *)
(* A KeySet is an unordered set: a loop may visit its keys in any order.   *)
(***************************************************************************)
InitOcc ==
  /\ tree = [k \in Keys |-> NoNode]
  /\ salconfig = QueryConfig
  /\ pc = "idle"
  /\ count_success = 0
  /\ reply = NoReply
  /\ NoBatch
  /\ NoRay
  /\ NoQuery

\* Entry, with any two sets of keys a batch can hold.
UpdateOccupancyEnter ==
  /\ pc = "idle"
  /\ \E free_cells \in SUBSET Keys, occupied_cells \in SUBSET Keys :
       /\ free_set' = free_cells
       /\ occupied_set' = occupied_cells
       /\ entry' = [free_cells |-> free_cells, occupied_cells |-> occupied_cells,
                    tree |-> tree]
  /\ visited' = {}
  /\ node_updates' = <<>>
  /\ inner_updates' = 0
  /\ pc' = "mark_occupied"
  /\ UNCHANGED <<tree, salconfig, count_success, reply,
                 rayVars, queryVars>>

\* Variant: the key is not erased from free_cells.
MarkOccupied_NoErase ==
  /\ pc = "mark_occupied"
  /\ \E key \in occupied_set \ visited :
       /\ tree' = [tree EXCEPT ![key] = UpdateNode(@, TRUE)]
       /\ node_updates' = Append(node_updates, [key |-> key, occupied |-> TRUE])
       /\ visited' = visited \cup {key}
  /\ UNCHANGED <<salconfig, pc, count_success, reply, free_set, occupied_set,
                 inner_updates, entry,
                 rayVars, queryVars>>

\* One pass of the first loop: updateNode(key, true), then the key is erased
\* from free_cells when it is there.
MarkOccupied ==
  /\ pc = "mark_occupied"
  /\ \E key \in occupied_set \ visited :
       /\ tree' = [tree EXCEPT ![key] = UpdateNode(@, TRUE)]
       /\ node_updates' = Append(node_updates, [key |-> key, occupied |-> TRUE])
       /\ free_set' = IF key \in free_set THEN free_set \ {key} ELSE free_set
       /\ visited' = visited \cup {key}
  /\ UNCHANGED <<salconfig, pc, count_success, reply, occupied_set,
                 inner_updates, entry,
                 rayVars, queryVars>>

\* The first loop has reached occupied_cells->end().
MarkOccupiedEnd ==
  /\ pc = "mark_occupied"
  /\ visited = occupied_set
  /\ visited' = {}
  /\ pc' = "mark_free"
  /\ UNCHANGED <<tree, salconfig, count_success, reply, free_set,
                 occupied_set, node_updates, inner_updates, entry,
                 rayVars, queryVars>>

\* Variant: the inner nodes are updated after every free key as well.
MarkFree_UpdatesInner ==
  /\ pc = "mark_free"
  /\ \E key \in free_set \ visited :
       /\ tree' = [tree EXCEPT ![key] = UpdateNode(@, FALSE)]
       /\ node_updates' = Append(node_updates, [key |-> key, occupied |-> FALSE])
       /\ visited' = visited \cup {key}
  /\ inner_updates' = inner_updates + 1
  /\ UNCHANGED <<salconfig, pc, count_success, reply, free_set, occupied_set,
                 entry,
                 rayVars, queryVars>>

\* One pass of the second loop: updateNode(key, false).
MarkFree ==
  /\ pc = "mark_free"
  /\ \E key \in free_set \ visited :
       /\ tree' = [tree EXCEPT ![key] = UpdateNode(@, FALSE)]
       /\ node_updates' = Append(node_updates, [key |-> key, occupied |-> FALSE])
       /\ visited' = visited \cup {key}
  /\ UNCHANGED <<salconfig, pc, count_success, reply, free_set, occupied_set,
                 inner_updates, entry,
                 rayVars, queryVars>>

\* The second loop has reached free_cells->end(): updateInnerOccupancy() and
\* return.
UpdateInnerOccupancy ==
  /\ pc = "mark_free"
  /\ visited = free_set
  /\ inner_updates' = inner_updates + 1
  /\ pc' = "idle"
  /\ UNCHANGED <<tree, salconfig, count_success, reply, free_set,
                 occupied_set, visited, node_updates, entry,
                 rayVars, queryVars>>

NextOcc ==
  \/ UpdateOccupancyEnter
  \/ MarkOccupied
  \/ MarkOccupiedEnd
  \/ MarkFree
  \/ UpdateInnerOccupancy

OccSpec == InitOcc /\ [][NextOcc]_vars

\* updateOccupancy has returned.
Returned == pc = "idle" /\ entry # NoEntry

\* The updateNode calls of the running or last call that were made for key.
UpdatesOf(key) ==
  {i \in 1..Len(node_updates) : node_updates[i].key = key}

(***************************************************************************)
(* C14: every key of occupied_cells \cup free_cells receives exactly one   *)
(* update in a call of updateOccupancy, an occupied update if it is in     *)
(* occupied_cells and a free update otherwise; no key receives both, and   *)
(* on return free_cells holds no key of occupied_cells.                    *)
(***************************************************************************)
C14_OneUpdatePerKey ==
  /\ \A k \in Keys : Cardinality(UpdatesOf(k)) <= 1
  /\ \A i \in 1..Len(node_updates) :
       /\ node_updates[i].key \in entry.free_cells \cup entry.occupied_cells
       /\ node_updates[i].occupied = (node_updates[i].key \in entry.occupied_cells)
  /\ Returned =>
       /\ \A k \in entry.free_cells \cup entry.occupied_cells :
            /\ Cardinality(UpdatesOf(k)) = 1
            /\ tree[k] = UpdateNode(entry.tree[k], k \in entry.occupied_cells)
       /\ \A k \in Keys \ (entry.free_cells \cup entry.occupied_cells) :
            tree[k] = entry.tree[k]
       /\ free_set \cap occupied_set = {}

\* A call has returned whose sets shared a key and whose free set held
\* another key as well.
C14_Witness ==
  /\ Returned
  /\ entry.free_cells \cap entry.occupied_cells # {}
  /\ entry.free_cells \ entry.occupied_cells # {}
  /\ Len(node_updates) = 2

(***************************************************************************)
(* C15: within one call of updateOccupancy every occupied update is made   *)
(* before any free update, and updateInnerOccupancy is called exactly      *)
(* once, after the last update of a key.                                   *)
(***************************************************************************)
OccupiedBeforeFree ==
  \A i \in 1..Len(node_updates), j \in 1..Len(node_updates) :
    (node_updates[i].occupied /\ ~node_updates[j].occupied) => i < j

C15_UpdateOrder ==
  /\ [](/\ OccupiedBeforeFree
        /\ inner_updates <= 1
        /\ inner_updates = 1 => pc = "idle"
        /\ Returned =>
             /\ inner_updates = 1
             /\ Len(node_updates) =
                  Cardinality(entry.free_cells \cup entry.occupied_cells))
  /\ [][inner_updates = 1 =>
          (inner_updates' = 1 => (node_updates' = node_updates /\ tree' = tree))
       ]_vars

\* A call has returned that made an occupied update, then a free update,
\* then the one call of updateInnerOccupancy.
C15_Witness ==
  /\ Returned
  /\ inner_updates = 1
  /\ Len(node_updates) = 2
  /\ node_updates[1].occupied
  /\ ~node_updates[2].occupied

(***************************************************************************)
(* C16: when every key of occupied_cells is already clamped at the upper   *)
(* threshold and every other key of free_cells at the lower one,           *)
(* integrating the batch leaves every voxel's log-odds, and so its         *)
(* probability and classification, unchanged.                              *)
(***************************************************************************)
SaturatedAtEntry ==
  /\ entry # NoEntry
  /\ \A k \in entry.occupied_cells :
       /\ entry.tree[k].present
       /\ entry.tree[k].logodds = ClampingThresMaxLog
  /\ \A k \in entry.free_cells \ entry.occupied_cells :
       /\ entry.tree[k].present
       /\ entry.tree[k].logodds = ClampingThresMinLog

C16_SaturatedFixedPoint ==
  SaturatedAtEntry =>
    \A k \in Keys :
      /\ tree[k].logodds = entry.tree[k].logodds
      /\ tree[k].present = entry.tree[k].present
      /\ IsNodeOccupied(tree[k]) = IsNodeOccupied(entry.tree[k])

\* A batch with one occupied and one free key, both saturated at entry, has
\* been integrated.
C16_Witness ==
  /\ Returned
  /\ SaturatedAtEntry
  /\ entry.occupied_cells # {}
  /\ entry.free_cells \ entry.occupied_cells # {}
  /\ Len(node_updates) = 2

(***************************************************************************)
(* Geometry of castRay.  The sensor and the points lie on the line         *)
(* x = y = 0, so a point is its z coordinate and a key its z index.        *)
(* Lengths are integers in units of half a voxel edge: a voxel centre is   *)
(* at an odd coordinate, and the centres of the voxels on that line are    *)
(* half an edge away from it in x and in y.                                *)
(***************************************************************************)
VoxelEdge == 2     \* the resolution, in units
KeyHalf == 6       \* tree_max_val: the keys are -KeyHalf .. KeyHalf - 1

\* octree_->coordToKeyChecked(c, key): false when c is outside the tree.
CoordToKeyChecked(c) ==
  (c \div VoxelEdge) >= -KeyHalf /\ (c \div VoxelEdge) < KeyHalf

\* octree_->coordToKey(c): the index is converted to the key type without a
\* check, so an index outside the tree wraps around.
CoordToKey(c) ==
  (((c \div VoxelEdge) + KeyHalf) % (2 * KeyHalf)) - KeyHalf

\* octree_->keyToCoord(key): z of the voxel centre.
KeyToCoord(key) == VoxelEdge * key + 1

\* octree_->computeRayKeys(origin, end, key_ray): the voxels from the one of
\* origin up to, not including, the one of end; false when an end of the
\* segment is outside the tree.
ComputeRayKeys(origin, end) ==
  IF ~CoordToKeyChecked(origin) \/ ~CoordToKeyChecked(end)
  THEN [ok |-> FALSE, key_ray |-> {}]
  ELSE LET ko == CoordToKey(origin)
           ke == CoordToKey(end)
       IN  [ok |-> TRUE,
            key_ray |-> IF ko <= ke THEN ko..(ke - 1) ELSE (ke + 1)..ko]

\* (voxel_coordinate - sensor_origin).norm() < limit
NormBelow(key, origin, limit) ==
  /\ limit > 0
  /\ 2 + (KeyToCoord(key) - origin) * (KeyToCoord(key) - origin) < limit * limit

\* Variant: a voxel is kept only when it is both near and high.
KeepFree_NearAndHigh(p, origin, key) ==
  /\ NormBelow(key, origin, p.max_free_space)
  /\ KeyToCoord(key) > origin - p.min_height_free_space

\* The test a ray voxel must pass when max_free_space is not 0.
KeepFree(p, origin, key) ==
  \/ NormBelow(key, origin, p.max_free_space)
  \/ KeyToCoord(key) > origin - p.min_height_free_space

\* The keys castRay adds to free_cells for the segment origin .. end.
FreeKeys(p, origin, end) ==
  LET ray == ComputeRayKeys(origin, end)
  IN  IF ~ray.ok THEN {}
      ELSE IF p.max_free_space = 0 THEN ray.key_ray
           ELSE {key \in ray.key_ray : KeepFree(p, origin, key)}

\* sensor_max_range < 0 or the point is within the range.
WithinRange(p, origin, pt) ==
  p.sensor_max_range < 0 \/ Abs(pt - origin) <= p.sensor_max_range

\* sensor_origin + (point - sensor_origin).normalized() * sensor_max_range
NewEnd(p, origin, pt) ==
  IF pt > origin THEN origin + p.sensor_max_range
  ELSE origin - p.sensor_max_range

\* Variant: the end point is marked occupied beyond the range too.
CastRay_AlwaysMarksEnd(p, origin, pt, free_cells, occupied_cells) ==
  [free_cells |->
     free_cells \cup FreeKeys(p, origin, IF WithinRange(p, origin, pt)
                                         THEN pt ELSE NewEnd(p, origin, pt)),
   occupied_cells |->
     IF CoordToKeyChecked(pt) THEN occupied_cells \cup {CoordToKey(pt)}
     ELSE occupied_cells,
   res |-> IF CoordToKeyChecked(pt) THEN 1 ELSE 0]

\* OctomapWorld::castRay: the two sets as it leaves them, and its result.
CastRay(p, origin, pt, free_cells, occupied_cells) ==
  IF WithinRange(p, origin, pt)
  THEN [free_cells |-> free_cells \cup FreeKeys(p, origin, pt),
        occupied_cells |->
          IF CoordToKeyChecked(pt) THEN occupied_cells \cup {CoordToKey(pt)}
          ELSE occupied_cells,
        res |-> IF CoordToKeyChecked(pt) THEN 1 ELSE 0]
  ELSE [free_cells |-> free_cells \cup FreeKeys(p, origin, NewEnd(p, origin, pt)),
        occupied_cells |-> occupied_cells,
        res |-> 0]

(***************************************************************************)
(* RaySpec: the batch building of insertPointcloudIntoMapImpl,             *)
(* insertPointcloudColorIntoMapImpl and                                    *)
(* insertProjectedDisparityIntoMapImpl: two empty KeySets, then one loop   *)
(* pass per point.  pc is "build" inside the loop.  The sets are then      *)
(* handed to updateOccupancy, which OccSpec follows.                       *)
(* Inputs: points inside and outside the tree, below and above the sensor; *)
(* the range limit disabled or 5; the free-space limit 0, 4 or -4; the     *)
(* free-space height 0 or 3.                                               *)
(***************************************************************************)
Points == {-14, -10, -4, -1, 0, 3, 10, 14}
Origins == {0, 1}
ParamsSet ==
  [sensor_max_range : {-1, 5}, max_free_space : {0, 4, -4},
   min_height_free_space : {0, 3}]

InitRay ==
  /\ tree = [k \in Keys |-> NoNode]
  /\ salconfig = QueryConfig
  /\ pc = "idle"
  /\ count_success = 0
  /\ reply = NoReply
  /\ NoBatch
  /\ NoQuery
  /\ params \in ParamsSet
  /\ p_G_sensor = 0
  /\ p_G_point = 0
  /\ points_done = 0
  /\ rays_cast = 0
  /\ res = 0

\* Entry: the sensor position, and the two sets, empty.
InsertPointcloudBegin ==
  /\ pc = "idle"
  /\ p_G_sensor' \in Origins
  /\ free_set' = {}
  /\ occupied_set' = {}
  /\ points_done' = 0
  /\ rays_cast' = 0
  /\ pc' = "build"
  /\ UNCHANGED <<tree, salconfig, count_success, reply, visited, node_updates,
                 inner_updates, entry, queryVars, params, p_G_point, res>>

\* Variant: castRay is called without looking into occupied_cells first.
InsertPoint_NoLookup ==
  /\ pc = "build"
  /\ points_done < MaxPoints
  /\ \E pt \in Points :
       /\ p_G_point' = pt
       /\ LET r == CastRay(params, p_G_sensor, pt, free_set, occupied_set)
          IN  /\ free_set' = r.free_cells
              /\ occupied_set' = r.occupied_cells
              /\ res' = r.res
              /\ rays_cast' = rays_cast + 1
  /\ points_done' = points_done + 1
  /\ UNCHANGED <<tree, salconfig, pc, count_success, reply, visited,
                 node_updates, inner_updates, entry, queryVars, params, p_G_sensor>>

\* One pass of the loop: the point's key is looked up in occupied_cells and
\* castRay is called when it is not there.
InsertPoint ==
  /\ pc = "build"
  /\ points_done < MaxPoints
  /\ \E pt \in Points :
       /\ p_G_point' = pt
       /\ IF CoordToKey(pt) \notin occupied_set
          THEN LET r == CastRay(params, p_G_sensor, pt, free_set, occupied_set)
               IN  /\ free_set' = r.free_cells
                   /\ occupied_set' = r.occupied_cells
                   /\ res' = r.res
                   /\ rays_cast' = rays_cast + 1
          ELSE UNCHANGED <<free_set, occupied_set, res, rays_cast>>
  /\ points_done' = points_done + 1
  /\ UNCHANGED <<tree, salconfig, pc, count_success, reply, visited,
                 node_updates, inner_updates, entry, queryVars, params, p_G_sensor>>

\* The loop has reached the end of the cloud.
InsertPointcloudEnd ==
  /\ pc = "build"
  /\ pc' = "idle"
  /\ UNCHANGED <<tree, salconfig, count_success, reply, free_set,
                 occupied_set, visited, node_updates, inner_updates, entry,
                 rayVars, queryVars>>

NextRay ==
  \/ InsertPointcloudBegin
  \/ InsertPoint
  \/ InsertPointcloudEnd

RaySpec == InitRay /\ [][NextRay]_vars

\* The step is a loop pass, and a loop pass in which castRay is called.
PointStep == points_done' = points_done + 1
RayStep == rays_cast' = rays_cast + 1

\* The point of the pass is farther from the sensor than a range limit
\* that is in force.
BeyondRange ==
  /\ params.sensor_max_range >= 0
  /\ Abs(p_G_point' - p_G_sensor) > params.sensor_max_range

\* The end of the segment the pass walks: the point, or the place at
\* exactly sensor_max_range from the sensor towards it.
SegmentEnd ==
  IF ~BeyondRange THEN p_G_point'
  ELSE IF p_G_point' > p_G_sensor THEN p_G_sensor + params.sensor_max_range
       ELSE p_G_sensor - params.sensor_max_range

(***************************************************************************)
(* C17: castRay inserts the key of the point into occupied_cells if and    *)
(* only if the range limit is disabled (negative) or the point is not      *)
(* farther than the limit, and the point has a key; for a farther point it *)
(* inserts nothing into occupied_cells and adds to free_cells only keys of *)
(* the ray cut at exactly the limit.                                       *)
(***************************************************************************)
C17_EndpointWithinRange ==
  [][RayStep =>
       /\ occupied_set' =
            IF ~BeyondRange /\ CoordToKeyChecked(p_G_point')
            THEN occupied_set \cup {CoordToKey(p_G_point')}
            ELSE occupied_set
       /\ (CoordToKey(p_G_point') \in occupied_set') =
            (~BeyondRange /\ CoordToKeyChecked(p_G_point'))
       /\ BeyondRange =>
            /\ res' = 0
            /\ free_set' \ free_set \subseteq
                 ComputeRayKeys(p_G_sensor, SegmentEnd).key_ray
            /\ params.max_free_space = 0 =>
                 free_set' =
                   free_set \cup ComputeRayKeys(p_G_sensor, SegmentEnd).key_ray
     ]_vars

\* The first ray of a batch went to the point 10 with the limit 5 and no
\* free-space filter: the voxels up to 5 are free, nothing is occupied.
C17_Witness ==
  /\ pc = "build"
  /\ points_done = 1
  /\ rays_cast = 1
  /\ params.sensor_max_range = 5
  /\ params.max_free_space = 0
  /\ p_G_sensor = 0
  /\ p_G_point = 10
  /\ occupied_set = {}
  /\ free_set = {0, 1}

(***************************************************************************)
(* The example of C18: resolution 1 (VoxelEdge), max_free_space 2.0, which *)
(* is 4 units, min_height_free_space 0, no range limit, the sensor at      *)
(* (0,0,0), and the first ray of a batch cast to (0,0,5), which is 10.     *)
(* The voxel at (0,0,4) has key 4 and the one at (0,0,1) key 1.            *)
(***************************************************************************)
ExampleParams ==
  /\ params.sensor_max_range < 0
  /\ params.max_free_space = 4
  /\ params.min_height_free_space = 0

ExampleCast(target) ==
  /\ pc = "build"
  /\ ExampleParams
  /\ p_G_sensor = 0
  /\ p_G_point = target
  /\ points_done = 1
  /\ rays_cast = 1

(***************************************************************************)
(* C18, as claimed: in the example the voxel at (0,0,4) is not inserted    *)
(* into the free set and the voxel at (0,0,1) is.                          *)
(***************************************************************************)
C18_FarVoxelExcluded ==
  ExampleCast(10) => (4 \notin free_set /\ 1 \in free_set)

(***************************************************************************)
(* C18, amended: in the example every voxel of the ray has z above 0, so   *)
(* the voxel at (0,0,4) is inserted into the free set like the voxel at    *)
(* (0,0,1); on the opposite ray, to (0,0,-5), the voxel at (0,0,-1) is     *)
(* inserted and the voxel at (0,0,-4), far and not above 0, is not.        *)
(***************************************************************************)
C18_HighVoxelKept ==
  /\ ExampleCast(10) => (4 \in free_set /\ 1 \in free_set)
  /\ ExampleCast(-10) => (-4 \notin free_set /\ -1 \in free_set)

\* The ray of the example has been cast.
C18_Witness ==
  /\ ExampleCast(10)
  /\ free_set = 0..4
  /\ occupied_set = {5}

(***************************************************************************)
(* C19: castRay filters the ray keys exactly when max_free_space is        *)
(* positive: then a ray key is inserted into free_cells iff its voxel is   *)
(* nearer to the sensor than the limit or its z is above                   *)
(* sensor z - min_height_free_space; with a limit that is zero or negative *)
(* every ray key is inserted.                                              *)
(***************************************************************************)
C19_FilterWhenPositive ==
  [][RayStep =>
       LET ray == ComputeRayKeys(p_G_sensor, SegmentEnd)
       IN  free_set' =
             free_set \cup
               IF params.max_free_space > 0
               THEN {key \in ray.key_ray :
                       \/ 2 + (KeyToCoord(key) - p_G_sensor)
                                * (KeyToCoord(key) - p_G_sensor)
                            < params.max_free_space * params.max_free_space
                       \/ KeyToCoord(key) >
                            p_G_sensor - params.min_height_free_space}
               ELSE ray.key_ray
     ]_vars

(***************************************************************************)
(* C20: a point whose key is already in occupied_cells is skipped: castRay *)
(* is not called and neither set changes; and no loop pass removes a key   *)
(* from either set.                                                        *)
(***************************************************************************)
C20_SkipKnownOccupied ==
  [][PointStep =>
       /\ CoordToKey(p_G_point') \in occupied_set =>
            /\ rays_cast' = rays_cast
            /\ free_set' = free_set
            /\ occupied_set' = occupied_set
       /\ free_set \subseteq free_set'
       /\ occupied_set \subseteq occupied_set'
     ]_vars

\* The second point of a batch fell into the voxel the first one had marked
\* occupied: one ray was cast for two points.
C20_Witness ==
  /\ pc = "build"
  /\ points_done = 2
  /\ rays_cast = 1
  /\ CoordToKey(p_G_point) \in occupied_set
  /\ free_set # {}

(***************************************************************************)
(* The map the occupancy queries read.  As for castRay the world is the    *)
(* line x = y = 0: a key is a z index, tree maps every key of the tree to  *)
(* its node or NoNode, and of the 26 neighbours of a key only the two on   *)
(* the line can have a node.                                               *)
(***************************************************************************)
LineKeys == -KeyHalf..(KeyHalf - 1)

\* The keys that may have a leaf in the maps queried.
MapKeys == -1..2

FreeNode ==
  [present |-> TRUE, logodds |-> ClampingThresMinLog, saliency |-> NewSaliency]
OccupiedNode ==
  [present |-> TRUE, logodds |-> ClampingThresMaxLog, saliency |-> NewSaliency]

MapTrees ==
  { [k \in LineKeys |-> IF k \in MapKeys THEN m[k] ELSE NoNode] :
      m \in [MapKeys -> {NoNode, FreeNode, OccupiedNode}] }

\* octree_->search(x, y, z): NULL (NoNode) for a place outside the tree and
\* for a key without a node.
Search(t, coordinate) ==
  IF CoordToKeyChecked(coordinate) THEN t[CoordToKey(coordinate)] ELSE NoNode

\* The status of a node: kUnknown for NULL.
NodeStatus(node) ==
  IF ~node.present THEN "kUnknown"
  ELSE IF IsNodeOccupied(node) THEN "kOccupied" ELSE "kFree"

\* OctomapWorld::getCellStatusPoint
GetCellStatusPoint(t, coordinate) == NodeStatus(Search(t, coordinate))

\* node->getOccupancy(): the probability of a log-odds value l, e^l / (1 + e^l),
\* with 2 for e as the log-odds here are whole numbers.  It lies strictly
\* between 0 and 1 and is at least 1/2 exactly from log-odds 0 on.
GetOccupancy(node) ==
  IF node.logodds >= 0
    THEN [n |-> 2 ^ node.logodds, d |-> 2 ^ node.logodds + 1]
    ELSE [n |-> 1, d |-> 1 + 2 ^ (-node.logodds)]

\* The variant that reports probability 0 for a place without a node.
GetCellProbabilityPoint_ZeroForUnknown(t, coordinate, has_probability) ==
  LET node == Search(t, coordinate)
  IN  [status |-> NodeStatus(node),
       probability |-> IF ~has_probability THEN {}
                       ELSE IF ~node.present THEN {RInt(0)}
                       ELSE {GetOccupancy(node)}]

\* OctomapWorld::getCellProbabilityPoint: the status returned and what is
\* written through the pointer probability: nothing ({}) when the pointer is
\* null (has_probability false), -1 when there is no node, the occupancy of
\* the node otherwise.
GetCellProbabilityPoint(t, coordinate, has_probability) ==
  LET node == Search(t, coordinate)
  IN  [status |-> NodeStatus(node),
       probability |-> IF ~has_probability THEN {}
                       ELSE IF ~node.present THEN {RInt(-1)}
                       ELSE {GetOccupancy(node)}]

\* The other keys of the +/-1 cube around key that lie on the line.
NeighbourKeys(key) == {key - 1, key + 1}

\* OctomapWorld::isSpeckleNode: for every neighbour current_key the node
\* looked up is that of key.
IsSpeckleNode(t, key) ==
  ~ \E current_key \in NeighbourKeys(key) :
      LET node == t[key]
      IN  node.present /\ IsNodeOccupied(node)

(***************************************************************************)
(* MapSpec: the occupancy queries on a map that is not being written, with *)
(* both settings of treat_unknown_as_occupied and of filter_speckles.      *)
(***************************************************************************)
MapParams ==
  [sensor_max_range : {-1}, max_free_space : {0}, min_height_free_space : {0},
   treat_unknown_as_occupied : BOOLEAN, filter_speckles : BOOLEAN]

InitMap ==
  /\ tree \in MapTrees
  /\ salconfig = QueryConfig
  /\ pc = "idle"
  /\ count_success = 0
  /\ reply = NoReply
  /\ NoBatch
  /\ params \in MapParams
  /\ p_G_sensor = 0
  /\ p_G_point = 0
  /\ points_done = 0
  /\ rays_cast = 0
  /\ res = 0
  /\ changed_keys = <<>>
  /\ bbox_line = NoLine
  /\ robot_size \in {0, 2}
  /\ files = <<>>
  /\ tree_resolution = 2

\* The variables no query writes.
mapFrame ==
  <<tree, salconfig, pc, count_success, free_set, occupied_set, visited,
    node_updates, inner_updates, entry, rayVars, changed_keys, robot_size,
    files, tree_resolution>>

QuerySpeckleNode ==
  /\ \E key \in MapKeys :
       reply' = [call |-> "isSpeckleNode", key |-> key,
                 result |-> IsSpeckleNode(tree, key)]
  /\ UNCHANGED <<mapFrame, bbox_line>>

\* The keys of the leaves and of the missing leaves between bbx_min and
\* bbx_max (begin_leafs_bbx, getUnknownLeafCenters).
BoxKeys(bbx_min, bbx_max) ==
  {k \in LineKeys : CoordToKey(bbx_min) <= k /\ k <= CoordToKey(bbx_max)}

\* Variant: the centre voxel does not end the query early.
GetCellStatusBoundingBox_NoCentreReturn(t, p, point, bounding_box_size) ==
  IF ~CoordToKeyChecked(point)
  THEN IF p.treat_unknown_as_occupied THEN "kUnknown" ELSE "kOccupied"
  ELSE LET box == BoxKeys(point - (bounding_box_size \div 2),
                          point + (bounding_box_size \div 2))
       IN  IF \E k \in box :
                /\ t[k].present
                /\ IsNodeOccupied(t[k])
                /\ ~(p.filter_speckles /\ IsSpeckleNode(t, k))
           THEN "kOccupied"
           ELSE IF \E k \in box : ~t[k].present THEN "kUnknown" ELSE "kFree"

\* Variant: a centre outside the tree is not told apart.
GetCellStatusBoundingBox_NoBoundsCheck(t, p, point, bounding_box_size) ==
  IF GetCellStatusPoint(t, point) # "kFree" /\ p.treat_unknown_as_occupied
  THEN GetCellStatusPoint(t, point)
  ELSE IF ~CoordToKeyChecked(point) THEN "kUnknown"
  ELSE LET box == BoxKeys(point - (bounding_box_size \div 2),
                          point + (bounding_box_size \div 2))
       IN  IF \E k \in box :
                /\ t[k].present
                /\ IsNodeOccupied(t[k])
                /\ ~(p.filter_speckles /\ IsSpeckleNode(t, k))
           THEN "kOccupied"
           ELSE IF \E k \in box : ~t[k].present THEN "kUnknown" ELSE "kFree"

\* OctomapWorld::getCellStatusBoundingBox
GetCellStatusBoundingBox(t, p, point, bounding_box_size) ==
  IF GetCellStatusPoint(t, point) # "kFree" /\ p.treat_unknown_as_occupied
  THEN GetCellStatusPoint(t, point)
  ELSE IF ~CoordToKeyChecked(point)
  THEN IF p.treat_unknown_as_occupied THEN "kUnknown" ELSE "kOccupied"
  ELSE LET box == BoxKeys(point - (bounding_box_size \div 2),
                          point + (bounding_box_size \div 2))
       IN  IF \E k \in box :
                /\ t[k].present
                /\ IsNodeOccupied(t[k])
                /\ ~(p.filter_speckles /\ IsSpeckleNode(t, k))
           THEN "kOccupied"
           ELSE IF \E k \in box : ~t[k].present THEN "kUnknown" ELSE "kFree"

\* Variant: unknown space counts as a collision under either setting.
CheckSinglePoseCollision_UnknownCollides(t, p, size, robot_position) ==
  "kFree" # GetCellStatusBoundingBox(t, p, robot_position, size)

\* OctomapWorld::checkSinglePoseCollision, with robot_size_ in size.
CheckSinglePoseCollision(t, p, size, robot_position) ==
  IF p.treat_unknown_as_occupied
  THEN "kFree" # GetCellStatusBoundingBox(t, p, robot_position, size)
  ELSE "kOccupied" = GetCellStatusBoundingBox(t, p, robot_position, size)

\* Variant: the loop goes on after a collision, the last one found is kept.
RECURSIVE CheckPath_LastCollision(_, _, _, _, _, _)
CheckPath_LastCollision(t, p, size, robot_positions, i, collision_index) ==
  IF i > Len(robot_positions)
  THEN [result |-> FALSE, collision_index |-> collision_index, checked |-> i - 1]
  ELSE LET rest == CheckPath_LastCollision(t, p, size, robot_positions, i + 1,
                                           collision_index)
       IN  IF CheckSinglePoseCollision(t, p, size, robot_positions[i])
           THEN IF rest.result THEN rest
                ELSE [result |-> TRUE, collision_index |-> i - 1,
                      checked |-> rest.checked]
           ELSE rest

\* OctomapWorld::checkPathForCollisionsWithRobot from the i-th position on
\* (i counts from 1, the index handed out from 0): what is returned, what
\* *collision_index holds, and how many positions were checked.
RECURSIVE CheckPath(_, _, _, _, _, _)
CheckPath(t, p, size, robot_positions, i, collision_index) ==
  IF i > Len(robot_positions)
  THEN [result |-> FALSE, collision_index |-> collision_index, checked |-> i - 1]
  ELSE IF CheckSinglePoseCollision(t, p, size, robot_positions[i])
       THEN [result |-> TRUE, collision_index |-> i - 1, checked |-> i]
       ELSE CheckPath(t, p, size, robot_positions, i + 1, collision_index)

\* Inputs of the point and box queries: places inside the tree, on and off
\* the mapped keys, and outside the tree; boxes of no, one and two edges.
QueryPoints == {-14, -2, 0, 1, 3, 4, 6, 14}
BoxSizes == {0, 2, 4}
Paths ==
  {<<>>} \cup {<<a>> : a \in {0, 3, 4}} \cup {<<a, b>> : a, b \in {0, 3, 4}}

QueryCellStatusPoint ==
  /\ \E coordinate \in QueryPoints :
       reply' = [call |-> "getCellStatusPoint", point |-> coordinate,
                 status |-> GetCellStatusPoint(tree, coordinate)]
  /\ UNCHANGED <<mapFrame, bbox_line>>

\* A call of getCellProbabilityPoint, with or without a place for the
\* probability.
QueryCellProbabilityPoint ==
  /\ \E coordinate \in QueryPoints, has_probability \in BOOLEAN :
       LET r == GetCellProbabilityPoint(tree, coordinate, has_probability)
       IN  reply' = [call |-> "getCellProbabilityPoint", point |-> coordinate,
                     status |-> r.status, probability |-> r.probability]
  /\ UNCHANGED <<mapFrame, bbox_line>>

QueryCellStatusBoundingBox ==
  /\ \E coordinate \in QueryPoints, bounding_box_size \in BoxSizes :
       reply' = [call |-> "getCellStatusBoundingBox", point |-> coordinate,
                 bounding_box_size |-> bounding_box_size,
                 status |-> GetCellStatusBoundingBox(tree, params, coordinate,
                                                     bounding_box_size)]
  /\ UNCHANGED <<mapFrame, bbox_line>>

QuerySinglePoseCollision ==
  /\ \E robot_position \in QueryPoints :
       reply' = [call |-> "checkSinglePoseCollision",
                 robot_position |-> robot_position,
                 result |-> CheckSinglePoseCollision(tree, params, robot_size,
                                                     robot_position)]
  /\ UNCHANGED <<mapFrame, bbox_line>>

\* What *collision_index holds when checkPathForCollisionsWithRobot is called.
PriorIndex == 5

QueryPathForCollisions ==
  /\ \E robot_positions \in Paths :
       LET r == CheckPath(tree, params, robot_size, robot_positions, 1,
                          PriorIndex)
       IN  reply' = [call |-> "checkPathForCollisionsWithRobot",
                     robot_positions |-> robot_positions,
                     result |-> r.result,
                     collision_index |-> r.collision_index,
                     checked |-> r.checked]
  /\ UNCHANGED <<mapFrame, bbox_line>>

NextMap ==
  \/ QuerySpeckleNode
  \/ QueryCellStatusPoint
  \/ QueryCellProbabilityPoint
  \/ QueryCellStatusBoundingBox
  \/ QuerySinglePoseCollision
  \/ QueryPathForCollisions

MapSpec == InitMap /\ [][NextMap]_vars

\* The record of a voxel, absent outside the tree.
RecordAt(t, key) == IF key \in LineKeys THEN t[key] ELSE NoNode

OccupiedAt(t, key) == RecordAt(t, key).present /\ IsNodeOccupied(RecordAt(t, key))

\* C21: is_speckle(key) is true if and only if none of the neighbours of the
\* key (the key itself left out) is occupied, whatever the key's own voxel
\* holds.
C21_SpeckleIffNoNeighbour ==
  reply.call = "isSpeckleNode" =>
    reply.result = (\A k \in NeighbourKeys(reply.key) : ~OccupiedAt(tree, k))

\* The voxels that the box of the given size around the point intersects,
\* those outside the tree included.
VoxelsInBox(point, bounding_box_size) ==
  {k \in -(2 * KeyHalf)..(2 * KeyHalf) :
     /\ VoxelEdge * k <= point + (bounding_box_size \div 2)
     /\ VoxelEdge * (k + 1) > point - (bounding_box_size \div 2)}

\* Occupied before Unknown before Free over the voxels of the box.
BoxRule(t, p, point, bounding_box_size) ==
  IF \E k \in VoxelsInBox(point, bounding_box_size) :
       OccupiedAt(t, k) /\ ~(p.filter_speckles /\ IsSpeckleNode(t, k))
  THEN "kOccupied"
  ELSE IF \E k \in VoxelsInBox(point, bounding_box_size) : ~RecordAt(t, k).present
       THEN "kUnknown"
       ELSE "kFree"

CentreReturns(t, p, point) ==
  GetCellStatusPoint(t, point) # "kFree" /\ p.treat_unknown_as_occupied

C28_CollisionPolicy ==
  reply.call = "checkSinglePoseCollision" =>
    LET status == GetCellStatusBoundingBox(tree, params, reply.robot_position,
                                           robot_size)
    IN  /\ params.treat_unknown_as_occupied => (reply.result <=> status # "kFree")
        /\ ~params.treat_unknown_as_occupied => (reply.result <=> status = "kOccupied")

\* An Unknown footprint that is no collision because unknown counts as free.
C28_Witness ==
  /\ reply.call = "checkSinglePoseCollision"
  /\ ~params.treat_unknown_as_occupied
  /\ GetCellStatusBoundingBox(tree, params, reply.robot_position, robot_size)
       = "kUnknown"
  /\ ~reply.result

Colliding(t, p, size, robot_positions) ==
  {i \in 1..Len(robot_positions) :
     CheckSinglePoseCollision(t, p, size, robot_positions[i])}

\* C29: path_collision returns true with the smallest index whose footprint
\* collides and checks no position after it; it returns false, the output
\* index untouched, iff no position collides (the empty list included).
C29_FirstCollision ==
  reply.call = "checkPathForCollisionsWithRobot" =>
    LET colliding == Colliding(tree, params, robot_size, reply.robot_positions)
    IN  IF colliding = {}
        THEN /\ ~reply.result
             /\ reply.collision_index = PriorIndex
             /\ reply.checked = Len(reply.robot_positions)
        ELSE LET first == CHOOSE i \in colliding : \A j \in colliding : i <= j
             IN  /\ reply.result
                 /\ reply.collision_index = first - 1
                 /\ reply.checked = first

\* Two colliding positions: the first one is reported, the second not checked.
C29_Witness ==
  /\ reply.call = "checkPathForCollisionsWithRobot"
  /\ Colliding(tree, params, robot_size, reply.robot_positions) = {1, 2}
  /\ reply.result
  /\ reply.collision_index = 0
  /\ reply.checked = 1

\* No position collides: false, and the index is what it was.
C29_WitnessNone ==
  /\ reply.call = "checkPathForCollisionsWithRobot"
  /\ Len(reply.robot_positions) = 2
  /\ ~reply.result
  /\ reply.collision_index = PriorIndex

\* ---------------------------------------------------------------------------
\* Line queries: getLineStatus, getVisibility and getLineStatusBoundingBox on
\* the line x = y = 0.
\* ---------------------------------------------------------------------------

\* octree_->computeRayKeys(origin, end, key_ray) in the order of the ray:
\* from the voxel of origin up to, not including, the voxel of end; nothing
\* when an end of the segment is outside the tree.
KeyRay(origin, end) ==
  IF ~ComputeRayKeys(origin, end).ok
  THEN << >>
  ELSE LET ko == CoordToKey(origin)
           ke == CoordToKey(end)
       IN  IF ko <= ke
           THEN [i \in 1..(ke - ko) |-> ko + i - 1]
           ELSE [i \in 1..(ko - ke) |-> ko - i + 1]

\* Variant: the loop goes through the whole ray, the last finding is kept.
GetLineStatus_WholeRay(t, start, end) ==
  LET key_ray == KeyRay(start, end)
      found == {i \in DOMAIN key_ray : NodeStatus(t[key_ray[i]]) # "kFree"}
  IN  IF found = {}
      THEN [status |-> "kFree", examined |-> Len(key_ray)]
      ELSE LET last == CHOOSE i \in found : \A j \in found : j <= i
           IN  [status |-> NodeStatus(t[key_ray[last]]), examined |-> Len(key_ray)]

\* OctomapWorld::getLineStatus: the status returned and the number of nodes
\* looked up.
GetLineStatus(t, start, end) ==
  LET key_ray == KeyRay(start, end)
      found == {i \in DOMAIN key_ray : NodeStatus(t[key_ray[i]]) # "kFree"}
  IN  IF found = {}
      THEN [status |-> "kFree", examined |-> Len(key_ray)]
      ELSE LET first == CHOOSE i \in found : \A j \in found : i <= j
           IN  [status |-> NodeStatus(t[key_ray[first]]), examined |-> first]

\* OctomapWorld::getVisibility
GetVisibility(t, view_point, voxel_to_test, stop_at_unknown_cell) ==
  LET key_ray == KeyRay(view_point, voxel_to_test)
      voxel_to_test_key == CoordToKey(voxel_to_test)
      found == {i \in DOMAIN key_ray :
                  /\ key_ray[i] # voxel_to_test_key
                  /\ \/ ~t[key_ray[i]].present /\ stop_at_unknown_cell
                     \/ t[key_ray[i]].present /\ IsNodeOccupied(t[key_ray[i]])}
  IN  IF found = {}
      THEN "kFree"
      ELSE LET first == CHOOSE i \in found : \A j \in found : i <= j
           IN  NodeStatus(t[key_ray[first]])

\* epsilon = 0.001 for a resolution of 0.1 that is VoxelEdge units.
Epsilon == [n |-> 1, d |-> 50]

\* 1.0 in the units of the model.
OneMetre == 20

RCeil(a) == -((-a.n) \div a.d)
RFloor(a) == a.n \div a.d
RNeg(a) == [n |-> -a.n, d |-> a.d]

\* Variant: a step that is not positive is left as it is.
Disc_NoClamp(size) ==
  LET cells == RCeil(RDivInt(RAdd(RInt(size), Epsilon), VoxelEdge))
  IN  IF cells > 0 THEN RDivInt(RInt(size), cells)
      ELSE RDivInt(RInt(-size), -cells)

\* getLineStatusBoundingBox: the step along one axis,
\* size / ceil((size + epsilon) / resolution), set to 1.0 when not positive.
\* (Sizes for which the ceiling is zero are not among the inputs.)
Disc(size) ==
  LET cells == RCeil(RDivInt(RAdd(RInt(size), Epsilon), VoxelEdge))
      disc == IF cells > 0 THEN RDivInt(RInt(size), cells)
              ELSE RDivInt(RInt(-size), -cells)
  IN  IF ~RGt(disc, RInt(0)) THEN RInt(OneMetre) ELSE disc

\* getLineStatus(start + offset, end + offset): the voxel of a coordinate is
\* decided by its integer part.
OffsetLineStatus(t, start, end, offset) ==
  GetLineStatus(t, RFloor(RAdd(RInt(start), offset)),
                   RFloor(RAdd(RInt(end), offset))).status

LineStarts == {-14, 0, 3}
LineEnds == {-2, 1, 5, 14}
LineBoxSizes == {-4, 0, 1, 2, 4}

InitLine ==
  /\ tree \in MapTrees
  /\ salconfig = QueryConfig
  /\ pc = "idle"
  /\ count_success = 0
  /\ reply = NoReply
  /\ NoBatch /\ NoRay /\ NoQuery

QueryLineStatus ==
  /\ ~bbox_line.running
  /\ \E start \in LineStarts, end \in LineEnds :
       reply' = [call |-> "getLineStatus", start |-> start, end |-> end,
                 status |-> GetLineStatus(tree, start, end).status,
                 examined |-> GetLineStatus(tree, start, end).examined]
  /\ UNCHANGED <<mapFrame, bbox_line>>

QueryVisibility ==
  /\ ~bbox_line.running
  /\ \E view_point \in LineStarts, voxel_to_test \in LineEnds,
        stop_at_unknown_cell \in BOOLEAN :
       reply' = [call |-> "getVisibility", view_point |-> view_point,
                 voxel_to_test |-> voxel_to_test,
                 stop_at_unknown_cell |-> stop_at_unknown_cell,
                 status |-> GetVisibility(tree, view_point, voxel_to_test,
                                          stop_at_unknown_cell)]
  /\ UNCHANGED <<mapFrame, bbox_line>>

\* getLineStatusBoundingBox up to the first test of the z loop, for a box of
\* no extent along x and y (their loops make one pass, at offset 0).
LineStatusBoundingBoxBegin ==
  /\ ~bbox_line.running
  /\ \E start \in LineStarts, end \in LineEnds, size \in LineBoxSizes :
       bbox_line' = [running |-> TRUE, start |-> start, end |-> end,
                     bounding_box_size |-> size,
                     z_disc |-> Disc(size),
                     z |-> RNeg(RDivInt(RInt(size), 2)),
                     lines |-> << >>]
  /\ reply' = NoReply
  /\ UNCHANGED mapFrame

LineReturn(ret, lines) ==
  /\ reply' = [call |-> "getLineStatusBoundingBox",
               start |-> bbox_line.start, end |-> bbox_line.end,
               bounding_box_size |-> bbox_line.bounding_box_size,
               status |-> ret, lines |-> lines]
  /\ bbox_line' = NoLine

\* z <= bounding_box_half_size.z(). z is a sum of rounded doubles: once
\* z_disc has been added, a z that should equal the half size exactly may
\* compare either way.
LoopTestMayPass ==
  LET half == RDivInt(RInt(bbox_line.bounding_box_size), 2)
  IN  \/ RLt(bbox_line.z, half)
      \/ REq(bbox_line.z, half)

LoopTestMayFail ==
  LET half == RDivInt(RInt(bbox_line.bounding_box_size), 2)
  IN  \/ RGt(bbox_line.z, half)
      \/ REq(bbox_line.z, half) /\ ~REq(bbox_line.z, RNeg(half))

\* Variant: a line that is not free does not end the loops.
LineStatusBoundingBoxStep_NoReturn ==
  /\ bbox_line.running
  /\ \/ /\ LoopTestMayPass
        /\ LET ret == OffsetLineStatus(tree, bbox_line.start, bbox_line.end,
                                       bbox_line.z)
               lines == Append(bbox_line.lines,
                               [offset |-> bbox_line.z, status |-> ret])
           IN  /\ bbox_line' = [bbox_line EXCEPT
                                  !.z = RAdd(bbox_line.z, bbox_line.z_disc),
                                  !.lines = lines]
               /\ UNCHANGED reply
     \/ /\ LoopTestMayFail
        /\ LineReturn("kFree", bbox_line.lines)
  /\ UNCHANGED mapFrame

\* One test of the z loop and, when it passes, one pass: the line at the
\* offset is evaluated and either ends the call or z advances by z_disc. When
\* the test fails the x and y loops end as well and kFree is returned.
LineStatusBoundingBoxStep ==
  /\ bbox_line.running
  /\ \/ /\ LoopTestMayPass
        /\ LET ret == OffsetLineStatus(tree, bbox_line.start, bbox_line.end,
                                       bbox_line.z)
               lines == Append(bbox_line.lines,
                               [offset |-> bbox_line.z, status |-> ret])
           IN  IF ret # "kFree"
               THEN LineReturn(ret, lines)
               ELSE /\ bbox_line' = [bbox_line EXCEPT
                                       !.z = RAdd(bbox_line.z, bbox_line.z_disc),
                                       !.lines = lines]
                    /\ UNCHANGED reply
     \/ /\ LoopTestMayFail
        /\ LineReturn("kFree", bbox_line.lines)
  /\ UNCHANGED mapFrame

NextLine ==
  \/ QueryLineStatus
  \/ QueryVisibility
  \/ LineStatusBoundingBoxBegin
  \/ LineStatusBoundingBoxStep

\* A call that has been made runs on.
LineSpec ==
  InitLine /\ [][NextLine]_vars /\ WF_vars(LineStatusBoundingBoxStep)

\* The voxels of the segment in order, from the one of start to the one of
\* end, both included.
SegmentVoxels(start, end) ==
  LET vs == start \div VoxelEdge
      ve == end \div VoxelEdge
  IN  IF vs <= ve
      THEN [i \in 1..(ve - vs + 1) |-> vs + i - 1]
      ELSE [i \in 1..(vs - ve + 1) |-> vs - i + 1]

LeastOf(S) == CHOOSE i \in S : \A j \in S : i <= j

\* C24: line_status(a,b) returns the status of the first voxel along the
\* segment that is not Free (Unknown without record, Occupied if occupied),
\* Free if every voxel of the segment is Free, and examines no voxel after
\* that first one.
C24_FirstNonFree ==
  reply.call = "getLineStatus" =>
    LET segment == SegmentVoxels(reply.start, reply.end)
        found == {i \in DOMAIN segment :
                    NodeStatus(RecordAt(tree, segment[i])) # "kFree"}
    IN  IF found = {}
        THEN reply.status = "kFree"
        ELSE /\ reply.status = NodeStatus(RecordAt(tree, segment[LeastOf(found)]))
             /\ reply.examined <= LeastOf(found)

\* C25: visibility never lets the voxel at the target's own key block; the
\* first other voxel of the segment that is occupied, or that has no record
\* while stop_at_unknown is true, decides the result (Occupied, Unknown); a
\* voxel without record is passed over when stop_at_unknown is false; with no
\* such voxel the result is Free.
C25_TargetNeverBlocks ==
  reply.call = "getVisibility" =>
    LET segment == SegmentVoxels(reply.view_point, reply.voxel_to_test)
        target == reply.voxel_to_test \div VoxelEdge
        found == {i \in DOMAIN segment :
                    /\ segment[i] # target
                    /\ \/ OccupiedAt(tree, segment[i])
                       \/ /\ reply.stop_at_unknown_cell
                          /\ ~RecordAt(tree, segment[i]).present}
    IN  reply.status =
          IF found = {} THEN "kFree"
          ELSE NodeStatus(RecordAt(tree, segment[LeastOf(found)]))

\* C26: line_status_bbox returns Free iff line_status is Free at every
\* offset it sampled; otherwise it returns the status of the first offset line
\* that is not Free, in the order of the offsets, and evaluates no line after
\* it.
C26_FirstOffsetLine ==
  reply.call = "getLineStatusBoundingBox" =>
    LET lines == reply.lines
    IN  /\ \A i \in DOMAIN lines :
             lines[i].status =
               OffsetLineStatus(tree, reply.start, reply.end, lines[i].offset)
        /\ \A i, j \in DOMAIN lines :
             i < j => RLt(lines[i].offset, lines[j].offset)
        /\ reply.status = "kFree" <=>
             \A i \in DOMAIN lines : lines[i].status = "kFree"
        /\ reply.status # "kFree" =>
             /\ lines # << >>
             /\ lines[Len(lines)].status = reply.status
             /\ \A i \in 1..(Len(lines) - 1) : lines[i].status = "kFree"

\* The second of four offsets is the first whose line is not free.
C26_Witness ==
  /\ reply.call = "getLineStatusBoundingBox"
  /\ reply.bounding_box_size = 4
  /\ Len(reply.lines) = 2
  /\ reply.status # "kFree"

\* C27: line_status_bbox terminates for every box size: the step is strictly
\* positive, an axis of no extent contributes exactly one offset, 0, and for a
\* box of no extent the result is that of line_status(a,b).
C27_Terminates ==
  /\ [](bbox_line.running => RGt(bbox_line.z_disc, RInt(0)))
  /\ [](reply.call = "getLineStatusBoundingBox" /\ reply.bounding_box_size = 0
          => /\ Len(reply.lines) = 1
             /\ REq(reply.lines[1].offset, RInt(0))
             /\ reply.status =
                  GetLineStatus(tree, reply.start, reply.end).status)
  /\ (bbox_line.running ~> ~bbox_line.running)

\* A box of no extent over a free line: one offset, then the loops end.
C27_Witness ==
  /\ reply.call = "getLineStatusBoundingBox"
  /\ reply.bounding_box_size = 0
  /\ Len(reply.lines) = 1
  /\ reply.status = "kFree"
  /\ KeyRay(reply.start, reply.end) # << >>
  /\ ~bbox_line.running

\* ---------------------------------------------------------------------------
\* Change tracking: updateOccupancy with change detection enabled, resetMap
\* and getChangedPoints, on the voxels of Keys.
\* ---------------------------------------------------------------------------

\* The change buffer of the tree after updateNode has taken the node of key
\* from before to after: a node just created is inserted as true (an entry
\* already there stays); a change of occupancy inserts the key as false, or
\* erases an entry that is false.
TrackKey(buffer, before, after, key) ==
  IF ~before.present
  THEN IF key \in DOMAIN buffer THEN buffer ELSE buffer @@ (key :> TRUE)
  ELSE IF IsNodeOccupied(before) = IsNodeOccupied(after) THEN buffer
  ELSE IF key \notin DOMAIN buffer THEN buffer @@ (key :> FALSE)
  ELSE IF buffer[key] = FALSE
       THEN [k \in DOMAIN buffer \ {key} |-> buffer[k]]
       ELSE buffer

RECURSIVE TrackChanges(_, _, _, _)
TrackChanges(buffer, before, after, touched) ==
  IF touched = {} THEN buffer
  ELSE LET key == CHOOSE k \in touched : TRUE
       IN  TrackChanges(TrackKey(buffer, before[key], after[key], key),
                        before, after, touched \ {key})

InitChange ==
  /\ tree = [k \in Keys |-> NoNode]
  /\ salconfig = QueryConfig
  /\ pc = "idle"
  /\ count_success = 0
  /\ reply = NoReply
  /\ NoBatch /\ NoRay /\ NoQuery

changeFrame ==
  <<salconfig, pc, count_success, free_set, occupied_set, visited,
    node_updates, inner_updates, entry, rayVars, bbox_line, robot_size,
    files, tree_resolution>>

\* OctomapWorld::updateOccupancy on a tree that tracks changes.
UpdateOccupancyTracked ==
  /\ \E free_cells \in SUBSET Keys, occupied_cells \in SUBSET Keys :
       /\ tree' = UpdateOccupancyTree(tree, free_cells, occupied_cells)
       /\ changed_keys' = TrackChanges(changed_keys, tree, tree',
                                       free_cells \cup occupied_cells)
  /\ reply' = [call |-> "updateOccupancy"]
  /\ UNCHANGED changeFrame

\* OctomapWorld::resetMap: octree_->clear() deletes the nodes; the change
\* buffer is emptied by resetChangeDetection only.
ResetMap ==
  /\ tree' = [k \in Keys |-> NoNode]
  /\ reply' = [call |-> "resetMap"]
  /\ UNCHANGED <<changed_keys, changeFrame>>

\* The orders in which an unordered map may hand out its keys.
Orders(S) ==
  {order \in [1..Cardinality(S) -> S] :
     \A i, j \in 1..Cardinality(S) : order[i] = order[j] => i = j}

\* What the caller's vectors hold before the call.
PriorOutputs == {<< >>, <<KeyToCoord(0)>>}

\* changed_points->clear()
Cleared(list) == SubSeq(list, 1, 0)

\* OctomapWorld::getChangedPoints. The node of a buffered key is handed to
\* isNodeOccupied as search returned it: where there is no node the read is
\* through a null pointer, and the call either dies or goes on with either
\* answer.
GetChangedPoints ==
  /\ \E order \in Orders(DOMAIN changed_keys), prior \in PriorOutputs,
        with_states \in BOOLEAN :
       \/ \E occupied \in [DOMAIN order -> BOOLEAN] :
            /\ \A i \in DOMAIN order :
                 tree[order[i]].present =>
                   occupied[i] = IsNodeOccupied(tree[order[i]])
            /\ reply' = [call |-> "getChangedPoints", aborted |-> FALSE,
                         changed_points |->
                           Cleared(prior) \o
                             [i \in DOMAIN order |-> KeyToCoord(order[i])],
                         changed_states |->
                           IF with_states
                           THEN Cleared(prior) \o
                                  [i \in DOMAIN order |-> occupied[i]]
                           ELSE << >>,
                         with_states |-> with_states]
            /\ changed_keys' = << >>
       \/ /\ \E i \in DOMAIN order : ~tree[order[i]].present
          /\ reply' = [call |-> "getChangedPoints", aborted |-> TRUE,
                       changed_points |-> Cleared(prior),
                       changed_states |-> << >>,
                       with_states |-> with_states]
          /\ UNCHANGED changed_keys
  /\ UNCHANGED <<tree, changeFrame>>

NextChange ==
  \/ UpdateOccupancyTracked
  \/ ResetMap
  \/ GetChangedPoints

ChangeSpec == InitChange /\ [][NextChange]_vars

GetChangedPointsReturns ==
  /\ reply'.call = "getChangedPoints"
  /\ <<reply, changed_keys>>' # <<reply, changed_keys>>

\* C30: changed_voxels returns every key in the change buffer, with its
\* current occupancy, into output lists it has cleared, and then empties the
\* buffer, so that a second call with no change in between returns nothing.
C30_DrainsBuffer ==
  [][GetChangedPointsReturns =>
       /\ ~reply'.aborted
       /\ Len(reply'.changed_points) = Cardinality(DOMAIN changed_keys)
       /\ {reply'.changed_points[i] : i \in DOMAIN reply'.changed_points}
            = {KeyToCoord(k) : k \in DOMAIN changed_keys}
       /\ reply'.with_states =>
            /\ Len(reply'.changed_states) = Len(reply'.changed_points)
            /\ \A i \in DOMAIN reply'.changed_points :
                 \A k \in DOMAIN changed_keys :
                   KeyToCoord(k) = reply'.changed_points[i] =>
                     reply'.changed_states[i] =
                       (tree[k].present /\ IsNodeOccupied(tree[k]))
       /\ changed_keys' = << >>]_vars

\* ---------------------------------------------------------------------------
\* The value castRay returns.
\* ---------------------------------------------------------------------------

\* The three outcomes of a castRay call: the end point marked occupied, the
\* ray cut at the range limit, and a ray within the limit whose end point has
\* no key, for which nothing is inserted.
EndpointMarked == ~BeyondRange /\ CoordToKeyChecked(p_G_point')
Truncated == BeyondRange
NothingInserted == ~BeyondRange /\ ~CoordToKeyChecked(p_G_point')

\* C34 as stated: the value castRay returns tells the three outcomes apart:
\* the value of a call that inserted nothing (0) and the value of a marked
\* end point (1) are returned for no other outcome.
C34_TriState ==
  [][RayStep =>
       /\ res' = 1 <=> EndpointMarked
       /\ res' = 0 <=> NothingInserted]_vars

\* C34, amended: the value castRay returns tells two outcomes apart: it is 1
\* when the end point has been marked occupied and 0 otherwise, for a ray
\* cut at the range limit as for one that inserted nothing.
C34_TwoValues ==
  [][RayStep =>
       /\ res' \in {0, 1}
       /\ res' = 1 <=> EndpointMarked
       /\ Truncated \/ NothingInserted => res' = 0]_vars

\* A ray cut at the range limit has added free cells and returned 0.
C34_Witness ==
  /\ pc = "build"
  /\ rays_cast = 1
  /\ points_done = 1
  /\ params.sensor_max_range >= 0
  /\ Abs(p_G_point - p_G_sensor) > params.sensor_max_range
  /\ free_set # {}
  /\ occupied_set = {}
  /\ res = 0

\* ---------------------------------------------------------------------------
\* Invariants of the saliency state machine.
\* ---------------------------------------------------------------------------

\* C35 as stated: every voxel whose state is Salient has a stored value
\* strictly greater than the threshold.
C35_SalientAboveThreshold ==
  \A k \in Keys :
    tree[k].present /\ Type(k) = VOXEL_SALIENCY
      => Sal(k).value > salconfig.saliency_threshold

\* C35, amended: every voxel whose state is Salient has a stored value that
\* is strictly greater than the threshold, or 0 (a decay sweep has met the
\* voxel while it was free); read_gain therefore returns 0 or a value above
\* the threshold.
C35_SalientAboveOrZero ==
  \A k \in Keys :
    /\ tree[k].present /\ Type(k) = VOXEL_SALIENCY
         => \/ Sal(k).value > salconfig.saliency_threshold
            \/ Sal(k).value = 0
    /\ \/ GetCuriousGain(tree, k).gain = 0
       \/ GetCuriousGain(tree, k).gain > salconfig.saliency_threshold

\* A Salient voxel, occupied again, whose value a sweep has set to 0.
C35_Witness ==
  \E k \in Keys :
    /\ tree[k].present
    /\ IsNodeOccupied(tree[k])
    /\ Type(k) = VOXEL_SALIENCY
    /\ Sal(k).value = 0

\* ---------------------------------------------------------------------------
\* ObserveSpec: the operations of Spec under further saliency
\* configurations: a small smoothing gain, a threshold of 0 that lets every
\* pixel through, and a threshold of 255 under which no voxel turns Salient.
\* ---------------------------------------------------------------------------
InitObserve ==
  /\ tree = [k \in Keys |-> NoNode]
  /\ salconfig \in
       { [timestamp |-> 0, alpha |-> [n |-> 1, d |-> 256],
          beta |-> [n |-> 0, d |-> 1], saliency_threshold |-> 100],
         [timestamp |-> 0, alpha |-> [n |-> 1, d |-> 2],
          beta |-> [n |-> 0, d |-> 1], saliency_threshold |-> 0],
         [timestamp |-> 0, alpha |-> [n |-> 1, d |-> 1],
          beta |-> [n |-> -1, d |-> 2], saliency_threshold |-> 255] }
  /\ pc = "idle"
  /\ count_success = 0
  /\ reply = NoReply
  /\ NoBatch /\ NoRay /\ NoQuery

ObserveSpec == InitObserve /\ [][Next]_vars

\* The observes that the pixel loop can make in the current state.
CanObserve(k, intensity) ==
  /\ pc = "project"
  /\ count_success < MaxPixels
  /\ ~(intensity < salconfig.saliency_threshold)
  /\ tree[k].present
  /\ IsNodeOccupied(tree[k])
  /\ Type(k) = VOXEL_NORMAL

\* value + alpha*(mean - value_buffer) as observe computes it for the voxel.
SmoothedAt(k, intensity) ==
  LET r == SaliencyReset(Sal(k), salconfig)
      I_bar == RunningMean(r.value_buff, r.counter + 1, intensity)
  IN  Smoothed(r.value, salconfig.alpha, I_bar, r.value_buff)

\* C36 as stated: the smoothed value that observe computes lies within 0..255
\* before it is truncated to the stored byte.
C36_SmoothedInByteRange ==
  \A k \in Keys, intensity \in Intensities :
    CanObserve(k, intensity) =>
      /\ ~RLt(SmoothedAt(k, intensity), RInt(0))
      /\ ~RGt(SmoothedAt(k, intensity), RInt(255))

\* C36, amended: the smoothed value is greater than -1 and at most 255: it
\* can be a negative fraction, which the truncation turns into 0, so that the
\* stored byte is never the result of a wrap-around.
C36_SmoothedTruncatesToByte ==
  \A k \in Keys, intensity \in Intensities :
    CanObserve(k, intensity) =>
      /\ RGt(SmoothedAt(k, intensity), RInt(-1))
      /\ ~RGt(SmoothedAt(k, intensity), RInt(255))
      /\ CastUChar(SmoothedAt(k, intensity))
           = {Trunc(SmoothedAt(k, intensity))}

\* After one observe of the epoch, a second one computes a negative fraction.
C36_Witness ==
  \E k \in Keys, intensity \in Intensities :
    /\ CanObserve(k, intensity)
    /\ count_success >= 1
    /\ Sal(k).timestamp = salconfig.timestamp
    /\ RLt(SmoothedAt(k, intensity), RInt(0))
    /\ Trunc(SmoothedAt(k, intensity)) = 0


(***************************************************************************)
(* The two point lookups.                                                  *)
(***************************************************************************)
\* The status the voxel record at a point stands for; a point outside the
\* tree has no record.
StatusAt(t, coordinate) ==
  LET record == IF CoordToKeyChecked(coordinate)
                  THEN RecordAt(t, CoordToKey(coordinate)) ELSE NoNode
  IN  IF ~record.present THEN "kUnknown"
      ELSE IF record.logodds >= OccProbThresLog THEN "kOccupied"
      ELSE "kFree"

\* C33: getCellStatusPoint returns Unknown when no voxel record exists at the
\* point, Occupied when the record is occupied and Free otherwise;
\* getCellProbabilityPoint returns the same status, and the probability it
\* hands out is -1 exactly when that status is Unknown and the occupancy
\* probability of the voxel otherwise (strictly between 0 and 1, at least
\* 1/2 exactly for an occupied voxel).
C33_StatusAndProbability ==
  /\ reply.call \in {"getCellStatusPoint", "getCellProbabilityPoint"} =>
       reply.status = StatusAt(tree, reply.point)
  /\ reply.call = "getCellProbabilityPoint" =>
       \A probability \in reply.probability :
         /\ REq(probability, RInt(-1)) <=> reply.status = "kUnknown"
         /\ reply.status # "kUnknown" =>
              /\ REq(probability,
                     GetOccupancy(RecordAt(tree, CoordToKey(reply.point))))
              /\ RGt(probability, RInt(0)) /\ RLt(probability, RInt(1))
              /\ reply.status = "kOccupied" <=>
                   ~RLt(probability, [n |-> 1, d |-> 2])

\* A probability lookup at a point without a voxel record handed out -1.
C33_Witness ==
  /\ reply.call = "getCellProbabilityPoint"
  /\ CoordToKeyChecked(reply.point)
  /\ reply.status = "kUnknown"
  /\ reply.probability = {RInt(-1)}

\* A probability lookup at a free voxel handed out a probability below 1/2.
C33_WitnessFree ==
  /\ reply.call = "getCellProbabilityPoint"
  /\ reply.status = "kFree"
  /\ \E probability \in reply.probability :
       RLt(probability, [n |-> 1, d |-> 2])


(***************************************************************************)
(* StoreSpec: the octree as a whole: setOctomapParameters, resetMap and    *)
(* the two file operations.  files is the file system, a function from     *)
(* file names to what the files hold; tree_resolution is the resolution of *)
(* the octree, which a snapshot read from a file brings with it.           *)
(***************************************************************************)
\* Variant: a node on the occupancy threshold goes to the lower clamping
\* threshold.
ToMaxLikelihood_AboveThreshold(t) ==
  [k \in DOMAIN t |->
     IF ~t[k].present THEN t[k]
     ELSE [t[k] EXCEPT !.logodds = IF t[k].logodds > OccProbThresLog
                                     THEN ClampingThresMaxLog
                                     ELSE ClampingThresMinLog]]

\* toMaxLikelihood(), the first step of writeBinary: every node goes to the
\* clamping threshold of its side.
ToMaxLikelihood(t) ==
  [k \in DOMAIN t |->
     IF ~t[k].present THEN t[k]
     ELSE [t[k] EXCEPT !.logodds = IF IsNodeOccupied(t[k])
                                     THEN ClampingThresMaxLog
                                     ELSE ClampingThresMinLog]]

\* What octree_->writeBinary puts into the file: the resolution and, per
\* place, whether there is a node and whether it is occupied.
SnapshotOf(t, resolution) ==
  [kind |-> "snapshot", resolution |-> resolution,
   cells |-> [k \in DOMAIN t |->
                IF ~t[k].present THEN "unknown"
                ELSE IF IsNodeOccupied(t[k]) THEN "occupied"
                ELSE "free"]]

\* The log file: one line per occupied leaf, with its place, the type and the
\* value of its saliency.
LogOf(t) ==
  [kind |-> "log",
   lines |-> { [key |-> k, type |-> t[k].saliency.type,
                value |-> t[k].saliency.value] :
               k \in {j \in DOMAIN t : t[j].present /\ IsNodeOccupied(t[j])} }]

\* The tree octree_->readBinary builds from a snapshot: new nodes at the
\* clamping thresholds.
ReadBinary(snapshot) ==
  [k \in DOMAIN snapshot.cells |->
     IF snapshot.cells[k] = "occupied" THEN OccupiedNode
     ELSE IF snapshot.cells[k] = "free" THEN FreeNode
     ELSE NoNode]

\* The file system f with the file name holding content.
WriteFile(f, name, content) ==
  [n \in DOMAIN f \cup {name} |-> IF n = name THEN content ELSE f[n]]

\* The values of params_ followed here: the resolution and one parameter
\* that the octree does not hold.
StoreParams == [resolution : {2, 4}, treat_unknown_as_occupied : BOOLEAN]

\* The maps at the start: per key no node, a node at a clamping threshold, a
\* node on the occupancy threshold, or an occupied node that an image has
\* made salient.
InitStore ==
  /\ tree \in
       [Keys ->
          {NoNode, FreeNode, OccupiedNode,
           [present |-> TRUE, logodds |-> OccProbThresLog,
            saliency |-> NewSaliency]}
          \cup
          { [present |-> TRUE, logodds |-> ClampingThresMaxLog,
             saliency |-> s] :
            s \in {u \in UpdateSaliencyNormal(NewSaliency, 255, QueryConfig) :
                     u.type = VOXEL_SALIENCY} }]
  /\ salconfig = QueryConfig
  /\ pc = "idle"
  /\ count_success = 0
  /\ reply = NoReply
  /\ NoBatch
  /\ params \in StoreParams
  /\ p_G_sensor = 0
  /\ p_G_point = 0
  /\ points_done = 0
  /\ rays_cast = 0
  /\ res = 0
  /\ changed_keys = <<>>
  /\ bbox_line = NoLine
  /\ robot_size = 0
  /\ files = <<>>
  /\ tree_resolution = params.resolution

storeFrame ==
  <<salconfig, pc, count_success, free_set, occupied_set, visited,
    node_updates, inner_updates, entry, p_G_sensor, p_G_point, points_done,
    rays_cast, res, bbox_line, robot_size>>

\* Variant: the new resolution is compared with the one in params_.
SetOctomapParameters_ComparesParams ==
  /\ \E new_params \in StoreParams :
       /\ IF params.resolution # new_params.resolution
            THEN /\ tree' = [k \in Keys |-> NoNode]
                 /\ tree_resolution' = new_params.resolution
                 /\ changed_keys' = <<>>
            ELSE UNCHANGED <<tree, tree_resolution, changed_keys>>
       /\ params' = new_params
       /\ reply' = [call |-> "setOctomapParameters", params |-> new_params,
                    warned |-> params.resolution # new_params.resolution]
  /\ UNCHANGED <<files, storeFrame>>

\* OctomapWorld::setOctomapParameters.  octree_ is set from the constructor
\* on.  A resolution other than the octree's replaces the octree by a new,
\* empty one after a warning; in any case the call returns and params_ is
\* the argument.
SetOctomapParameters ==
  /\ \E new_params \in StoreParams :
       /\ IF tree_resolution # new_params.resolution
            THEN /\ tree' = [k \in Keys |-> NoNode]
                 /\ tree_resolution' = new_params.resolution
                 /\ changed_keys' = <<>>
            ELSE UNCHANGED <<tree, tree_resolution, changed_keys>>
       /\ params' = new_params
       /\ reply' = [call |-> "setOctomapParameters", params |-> new_params,
                    warned |-> tree_resolution # new_params.resolution]
  /\ UNCHANGED <<files, storeFrame>>

\* OctomapWorld::writeOctomapToFile: the log goes to filename.txt and the
\* snapshot to filename.ot; the value returned is that of writeBinary, false
\* when the file cannot be opened.
WriteOctomapToFile ==
  /\ \E filename \in {"map", "map.ot"} :
       LET fn == filename \o ".txt"
           fn1 == filename \o ".ot"
       IN  \/ /\ tree' = ToMaxLikelihood(tree)
              /\ files' = WriteFile(WriteFile(files, fn, LogOf(tree)),
                                    fn1, SnapshotOf(tree', tree_resolution))
              /\ reply' = [call |-> "writeOctomapToFile",
                           filename |-> filename, result |-> TRUE]
           \/ /\ reply' = [call |-> "writeOctomapToFile",
                           filename |-> filename, result |-> FALSE]
              /\ UNCHANGED <<tree, files>>
  /\ UNCHANGED <<params, tree_resolution, changed_keys, storeFrame>>

\* OctomapWorld::loadOctomapFromFile: readBinary opens filename as it is
\* given.  Without such a file, or with one that does not start with the
\* header of a snapshot, it returns false and leaves the octree alone.
LoadOctomapFromFile ==
  /\ \E filename \in {"map", "map.ot", "map.txt", "map.ot.ot"} :
       IF filename \in DOMAIN files /\ files[filename].kind = "snapshot"
         THEN /\ tree' = ReadBinary(files[filename])
              /\ tree_resolution' = files[filename].resolution
              /\ reply' = [call |-> "loadOctomapFromFile",
                           filename |-> filename, result |-> TRUE]
         ELSE /\ reply' = [call |-> "loadOctomapFromFile",
                           filename |-> filename, result |-> FALSE]
              /\ UNCHANGED <<tree, tree_resolution>>
  /\ UNCHANGED <<params, files, changed_keys, storeFrame>>

NextStore ==
  \/ SetOctomapParameters
  \/ ResetMap
  \/ WriteOctomapToFile
  \/ LoadOctomapFromFile

StoreSpec == InitStore /\ [][NextStore]_vars


\* A step of setOctomapParameters.
SetParametersStep ==
  /\ reply'.call = "setOctomapParameters"
  /\ <<reply, tree, params, tree_resolution>>' #
       <<reply, tree, params, tree_resolution>>

\* C31: setOctomapParameters with a resolution different from that of the
\* current store discards the whole map, so that every point query returns
\* Unknown afterwards, and returns normally (a warning is all there is); with
\* the same resolution it keeps every voxel as it is; in both cases the
\* parameters are the new ones afterwards.
C31_ResolutionChangeResets ==
  [][SetParametersStep =>
       /\ params' = reply'.params
       /\ tree_resolution' = reply'.params.resolution
       /\ IF reply'.params.resolution # tree_resolution
            THEN /\ reply'.warned
                 /\ \A k \in Keys : NodeStatus(tree'[k]) = "kUnknown"
            ELSE /\ ~reply'.warned
                 /\ tree' = tree
     ]_vars

\* A change of resolution has left the store empty, while a snapshot with
\* voxels written at another resolution is on file.
C31_Witness ==
  /\ reply.call = "setOctomapParameters"
  /\ reply.warned
  /\ \A k \in Keys : ~tree[k].present
  /\ tree_resolution = params.resolution
  /\ \E name \in DOMAIN files :
       /\ files[name].kind = "snapshot"
       /\ files[name].resolution # tree_resolution
       /\ \E k \in Keys : files[name].cells[k] # "unknown"

\* A call with the resolution of the store kept a map with voxels in it and
\* replaced the parameters.
C31_WitnessKept ==
  /\ reply.call = "setOctomapParameters"
  /\ ~reply.warned
  /\ \E k \in Keys : tree[k].present
  /\ params = reply.params


\* A call of loadOctomapFromFile that returned true.
LoadSucceeds ==
  /\ reply'.call = "loadOctomapFromFile"
  /\ reply'.result

\* C32: reading back the snapshot that writeOctomapToFile(base) has written,
\* the file base.ot, leaves every voxel occupied that was occupied when it
\* was written (the voxels listed in the log base.txt of the same call);
\* nothing is said of their saliency.
C32_RoundTripOccupied ==
  [][\A base \in {"map", "map.ot"} :
       LoadSucceeds /\ reply'.filename = base \o ".ot" =>
         \A line \in files[base \o ".txt"].lines :
           NodeStatus(tree'[line.key]) = "kOccupied"
     ]_vars

\* A snapshot was read back into a store that had been emptied: a voxel
\* written as occupied and salient is occupied again, its saliency that of a
\* new node.
C32_Witness ==
  /\ reply.call = "loadOctomapFromFile"
  /\ reply.result
  /\ reply.filename = "map.ot"
  /\ \E line \in files["map.txt"].lines :
       /\ line.type = VOXEL_SALIENCY
       /\ NodeStatus(tree[line.key]) = "kOccupied"
       /\ tree[line.key].saliency = NewSaliency
  /\ \E k \in Keys : files["map.ot"].cells[k] = "free" /\ tree[k] = FreeNode

\* Every file operation leaves alone the files it does not name, and a save
\* that returns true under the name filename leaves two files of its own,
\* the log filename.txt and the snapshot filename.ot.
C37_TwoFiles ==
  /\ reply'.call = "writeOctomapToFile" /\ reply'.result =>
       /\ DOMAIN files' =
            DOMAIN files \cup {reply'.filename \o ".txt",
                               reply'.filename \o ".ot"}
       /\ files'[reply'.filename \o ".txt"].kind = "log"
       /\ files'[reply'.filename \o ".ot"].kind = "snapshot"
       /\ \A n \in DOMAIN files :
            n \notin {reply'.filename \o ".txt", reply'.filename \o ".ot"} =>
              files'[n] = files[n]
  /\ ~(reply'.call = "writeOctomapToFile" /\ reply'.result) => files' = files

\* loadOctomapFromFile is called with the name that the save before it,
\* which returned true, was called with.
LoadAfterWrite ==
  /\ reply.call = "writeOctomapToFile"
  /\ reply.result
  /\ reply'.call = "loadOctomapFromFile"
  /\ reply'.filename = reply.filename

\* C37: after writeOctomapToFile(name) has returned true,
\* loadOctomapFromFile(name) with the same name loads the map just written:
\* it returns true and the store holds the voxels of the snapshot written;
\* and a save creates exactly two files derived from the name, the log and
\* the snapshot.
C37_LoadSameName ==
  [][/\ C37_TwoFiles
     /\ LoadAfterWrite =>
          /\ reply'.result
          /\ tree' = ReadBinary(files[reply.filename \o ".ot"])
     ]_vars

\* What the code does instead: the load under the name of the save opens the
\* file of that very name, which the save has not written: it fails, or it
\* loads the snapshot that an earlier save under another name has left
\* there.
C37_LoadsFileAsNamed ==
  [][/\ C37_TwoFiles
     /\ LoadAfterWrite =>
          IF reply.filename \in DOMAIN files
            THEN reply'.result /\ tree' = ReadBinary(files[reply.filename])
            ELSE ~reply'.result /\ tree' = tree
     ]_vars

\* A load under the name of the save before it has brought back the map of
\* an earlier save instead of the one just written.
C37_WitnessStale ==
  /\ reply.call = "loadOctomapFromFile"
  /\ reply.result
  /\ (reply.filename \o ".ot") \in DOMAIN files
  /\ tree # ReadBinary(files[reply.filename \o ".ot"])
  /\ tree = ReadBinary(files[reply.filename])

====
